---------------------------- MODULE Spec2Model ----------------------------
(***************************************************************************)
(* A model of the orpheus-blog server core: the session/authentication     *)
(* service (server/_core/auth.ts), the authorization gate, the content     *)
(* repository (server/db.ts), the storage service (server/storage.ts) and  *)
(* the tRPC router (server/routers.ts).                                    *)
(*                                                                         *)
(* Conventions                                                             *)
(*   - Wall-clock time `now` is in milliseconds (Date.now()); JWT claims   *)
(*     and MySQL TIMESTAMP columns hold whole seconds.                     *)
(*   - A nullable column holds <<>> (SQL NULL) or <<v>>.  An optional      *)
(*     input key holds Undefined, <<>> (JavaScript null) or <<v>>.         *)
(*   - An input object is a function from the keys it has to such values,  *)
(*     so "key absent" and "key present with value undefined" are          *)
(*     different inputs.                                                   *)
(*   - Searchable text (titles, descriptions, tags, ...) is a sequence of  *)
(*     characters; other strings are atomic.  A Date in an input is in     *)
(*     milliseconds; a stored timestamp is in seconds.                     *)
(*   - HS256 is modelled as an ideal MAC: the tag is the pair (key,        *)
(*     message), so two tags agree exactly when key and message agree.     *)
(*   - A step of a call is one awaited statement, executed by the database *)
(*     or the bucket, together with the code that runs when its result     *)
(*     arrives, up to the next awaited statement.  Steps of different      *)
(*     calls interleave.                                                   *)
(***************************************************************************)
EXTENDS Integers, Sequences, FiniteSets, TLC

VARIABLES
    now,          \* Date.now(), milliseconds
    config,       \* the deployment: the process environment, fixed at
                  \* start, the collation of the database's text columns
                  \* and what the installed drizzle-orm does with a
                  \* negative limit
    db,           \* the MySQL tables: db.users, db.photos, db.essays,
                  \* db.papers, db.backgrounds, each id -> row
    autoInc,      \* the AUTO_INCREMENT counter of each table
    objects,      \* the bucket: key -> object
    s3Client,     \* the cached S3 client of the process (_s3Client), or None
    presigned,    \* the presigned upload URLs given out
    pending,      \* the calls in flight, each with its position and locals
    issued,       \* the session tokens that exist (held by clients), each
                  \* with the time (ms) and lifetime it was created with
    last          \* the call that returned last, and its outcome

vars == <<now, config, db, autoInc, objects, s3Client, presigned, pending,
          issued, last>>

----------------------------------------------------------------------------
(* Bounds of the model *)

\* Tokens that clients may hold at once.
MaxTokens == 2
\* Clock ticks of the session specification (each of TickMs milliseconds).
MaxTicks == 3
\* Rows ever inserted, over all content tables, in the gate specification.
MaxInserts == 1
\* Rows ever inserted, over all content tables, in the content specification.
MaxRows == 2
\* Seconds that pass in the content specification.
MaxSeconds == 1
\* The AUTO_INCREMENT value of users up to which upsertUser is called.
MaxUpsertIds == 3

(* Program constants *)

MsPerSecond == 1000
\* One clock tick of the session specification: half a second.
TickMs == MsPerSecond \div 2
\* 24 * 60 * 60 * 1000
MsPerDay == 86400000

----------------------------------------------------------------------------
(* Values *)

\* SQL NULL, and JavaScript null.
NULL      == <<>>
\* JavaScript undefined: apart from null and from every value <<v>>.
Undefined == <<"undefined", "undefined">>
Some(v)   == <<v>>
None      == [none |-> TRUE]

\* The empty string, where a string stands for a token (a cookie value, the
\* text after "Bearer ").
Blank == [blank |-> TRUE]

\* if (x), for x a string or undefined.
Truthy(x) == x # None /\ x # Blank

\* x ?? null
Nullish(x) == IF x = Undefined THEN NULL ELSE x

\* Math.floor(ms / 1000): epoch seconds of a millisecond time.
Epoch(ms) == ms \div MsPerSecond

\* A Date written to a TIMESTAMP column, which keeps no fractional seconds:
\* drizzle sends the Date with its milliseconds and MySQL rounds it to the
\* nearest second.
timestamp(ms) == (ms + MsPerSecond \div 2) \div MsPerSecond

\* String.prototype.toLowerCase over the strings of the model.
ToLowerCase(s) ==
    CASE s = "Admin@site.io" -> "admin@site.io"
      [] s = "X" -> "x"
      [] OTHER -> s

\* email.split("@")[0]
LocalPart(s) ==
    CASE s = "admin@site.io" -> "admin"
      [] s = "Admin@site.io" -> "Admin"
      [] s = "user@site.io"  -> "user"
      [] OTHER -> s

Emails    == {"admin@site.io", "user@site.io"}
Passwords == {"secret", "wrong"}
Secrets   == {"A", "B"}
Roles     == {"user", "admin"}

----------------------------------------------------------------------------
(* Configuration: server/_core/config.ts *)

\* getEnvNumber("SESSION_MAX_AGE_DAYS", 365) * 24 * 60 * 60 * 1000
SessionMaxAge(days) == days * MsPerDay

\* The collations a deployment's text columns may have.  The schema names
\* none, so the server's default applies: case-insensitive on MySQL
\* ("ci"), binary on TiDB ("bin").
Collations == {"ci", "bin"}

\* What the installed drizzle-orm does with query.limit(n) for n < 0: it
\* leaves the LIMIT out, or sends it to the database, which rejects it.
\* The lockfile decides, and src/ does not hold it.
NegativeLimits == {"dropped", "rejected"}

\* A deployment with every variable set, SESSION_MAX_AGE_DAYS=1, on a
\* database whose text columns compare without case.
BaseConfig ==
    [ databaseUrl    |-> "mysql://db",
      jwtSecret      |-> "B",
      adminEmail     |-> "admin@site.io",
      adminPassword  |-> "secret",
      sessionMaxAge  |-> SessionMaxAge(1),
      accessKeyId    |-> "key",
      secretAccessKey|-> "skey",
      bucket         |-> "bucket",
      nodeEnv        |-> "production",
      collation      |-> "ci",
      negativeLimit  |-> "dropped" ]

\* getEnv(key) of the required variables: buildConfig throws when
\* DATABASE_URL or JWT_SECRET is unset or empty.  validateConfig() builds
\* the configuration before the server listens, and every read of `config`
\* builds it, so a process without them serves nothing.
buildConfig(env) ==
    IF env.databaseUrl = "" \/ env.jwtSecret = "" THEN "Error" ELSE "ok"

\* Boolean(s3.accessKeyId && s3.secretAccessKey && s3.bucket)
isStorageConfigured(cfg) ==
    cfg.accessKeyId # "" /\ cfg.secretAccessKey # "" /\ cfg.bucket # ""

\* A DATABASE_URL that mysql2 cannot parse (it has no scheme).
MalformedUrl == "localhost/db"

\* drizzle(url) makes the connection pool, whose configuration is parsed
\* from the URL at once: it throws on a URL that does not parse, and
\* connects lazily otherwise.
drizzle(url) == IF url = MalformedUrl THEN "Error" ELSE "ok"

\* getDb(): the drizzle handle, or null when drizzle(url) threw; a failure
\* is not cached, so every call tries again with the same outcome.
getDb(cfg) == drizzle(cfg.databaseUrl) = "ok"

\* A DATABASE_URL that parses and names a server that does not answer.
UnreachableUrl == "mysql://down"

\* await db.select() / insert() / update() / delete(): the pool connects
\* when a statement is executed, and the promise of the statement rejects
\* when the server does not answer.
Answers(cfg) == cfg.databaseUrl # UnreachableUrl

----------------------------------------------------------------------------
(* Text comparison in SQL *)

\* The case folding of a case-insensitive collation, over the model's
\* characters.
Fold(ch) ==
    CASE ch = "A" -> "a"
      [] ch = "B" -> "b"
      [] OTHER -> ch

\* A character, and an atomic string, as the collation compares it.
CollateChar(cfg, ch) == IF cfg.collation = "ci" THEN Fold(ch) ELSE ch
Collate(cfg, s)      == IF cfg.collation = "ci" THEN ToLowerCase(s) ELSE s

\* column = value on a text column: equality under the column's collation,
\* never true of NULL.
EqText(cfg, stored, v) == stored # NULL /\ Collate(cfg, stored[1]) = Collate(cfg, v)

----------------------------------------------------------------------------
(* JWT utilities: server/_core/auth.ts *)

Claims(t) == <<t.userId, t.email, t.role, t.iat, t.exp>>

\* The HS256 tag of a message under a key.
HS256(key, msg) == [key |-> key, msg |-> msg]

\* createSessionToken(payload, {expiresInMs}) in a service whose JWT_SECRET
\* is secret, called at time t (ms).
createSessionToken(secret, t, payload, expiresInMs) ==
    LET expirationSeconds == (t + expiresInMs) \div MsPerSecond
        body == [ userId |-> payload.userId, email |-> payload.email,
                  role |-> payload.role, iat |-> Epoch(t),
                  exp |-> expirationSeconds ]
    IN  [ userId |-> body.userId, email |-> body.email, role |-> body.role,
          iat |-> body.iat, exp |-> body.exp,
          sig |-> HS256(secret, Claims(body)) ]

\* A faulty jwtVerify, which does not look at the signature.
jwtVerify_NoSignature(secret, t, token) ==
    ~ (token.exp <= Epoch(t))

\* A faulty jwtVerify, which still accepts a token in the second of its "exp".
jwtVerify_ExpiryInclusive(secret, t, token) ==
    /\ token.sig = HS256(secret, Claims(token))
    /\ ~ (token.exp < Epoch(t))

\* jose's jwtVerify: the signature is recomputed under the verifier's key,
\* then "exp" is checked against the verifier's clock.
jwtVerify(secret, t, token) ==
    /\ token.sig = HS256(secret, Claims(token))
    /\ ~ (token.exp <= Epoch(t))

\* verifySessionToken(token): the session payload, or None.
verifySessionToken(cfg, t, token) ==
    IF ~ Truthy(token) THEN None
    ELSE IF ~ jwtVerify(cfg.jwtSecret, t, token) THEN None
    ELSE [userId |-> token.userId, email |-> token.email, role |-> token.role]

----------------------------------------------------------------------------
(* Requests *)

\* An Authorization header: its first seven characters and the text after
\* them.
Header(prefix, rest) == [prefix |-> prefix, rest |-> rest]

\* A request: the value of its session cookie (None when it has no such
\* cookie) and its Authorization header (None when it has none).
NoRequest == [cookie |-> None, authorization |-> None]
CookieRequest(t) == [cookie |-> t, authorization |-> None]
BearerRequest(t) == [cookie |-> None, authorization |-> Header("Bearer ", t)]

\* The requests a client can send: it presents no token, or one it holds, in
\* the session cookie or as "Authorization: Bearer <token>".
Tokens == {g.token : g \in issued}

Requests == {NoRequest} \cup {CookieRequest(t) : t \in Tokens}
                        \cup {BearerRequest(t) : t \in Tokens}

\* How a request arrived: req.protocol, and the entries of its
\* x-forwarded-proto header split at the commas (<<>> when the header is
\* absent or empty).
Transport(req, protocol, forwardedProto) ==
    [cookie |-> req.cookie, authorization |-> req.authorization,
     protocol |-> protocol, forwardedProto |-> forwardedProto]

\* A request for which nothing is said of its transport came over plain
\* http with no x-forwarded-proto header.
Protocol(req) == IF "protocol" \in DOMAIN req THEN req.protocol ELSE "http"
ForwardedProto(req) ==
    IF "forwardedProto" \in DOMAIN req THEN req.forwardedProto ELSE <<>>

\* The first seven characters an Authorization header may start with.
Prefixes == {"Bearer ", "bearer ", "Basic x"}

\* Every request a client can put together from the tokens it holds: any
\* cookie value with any Authorization header.
HeaderRequests ==
    [ cookie : {None, Blank} \cup Tokens,
      authorization : {None} \cup
          {Header(p, x) : p \in Prefixes, x \in {Blank} \cup Tokens} ]

\* A faulty getSessionToken, which tries the Authorization header first.
getSessionToken_HeaderFirst(req) ==
    IF req.authorization # None /\ req.authorization.prefix = "Bearer "
    THEN req.authorization.rest
    ELSE IF Truthy(req.cookie) THEN req.cookie
    ELSE None

\* getSessionToken(req): the cookie first, the Bearer header second.
getSessionToken(req) ==
    IF Truthy(req.cookie) THEN req.cookie
    ELSE IF req.authorization # None /\ req.authorization.prefix = "Bearer "
         THEN req.authorization.rest
    ELSE None

----------------------------------------------------------------------------
(* User operations: server/db.ts.  A statement that writes takes the time  *)
(* t at which the database executes it; a Date the JavaScript code read    *)
(* (new Date(), Date.now()) when it issued the statement is `date`.        *)

getUserById(cfg, tbl, id) ==
    IF ~ getDb(cfg) THEN None
    ELSE IF id \in DOMAIN tbl THEN tbl[id] ELSE None

\* select().from(users).where(eq(users.email, email)).limit(1): the rows the
\* call may return.  The comparison is the column's collation's, and the
\* statement has no ORDER BY, so among several matching rows the database
\* returns any one.
getUserByEmail(cfg, tbl, email) ==
    LET matching == {i \in DOMAIN tbl : EqText(cfg, tbl[i].email, email)}
    IN  IF ~ getDb(cfg) \/ matching = {} THEN {None}
        ELSE {tbl[i] : i \in matching}

\* openId has a unique index, so at most one row matches.
getUserByOpenId(cfg, tbl, openId) ==
    IF ~ getDb(cfg) THEN None
    ELSE IF \E i \in DOMAIN tbl : tbl[i].openId = openId
         THEN tbl[CHOOSE i \in DOMAIN tbl : tbl[i].openId = openId]
         ELSE None

\* db.insert(users).values({openId: `local_${Date.now()}_${random}`, email,
\* name: user.name || null, role: user.role || "user",
\* lastSignedIn: new Date()}); the random part of the openId is the row's id
\* in the model.
createUser(tbl, id, date, t, user) ==
    [i \in DOMAIN tbl \cup {id} |->
        IF i = id
        THEN [ id |-> id, openId |-> <<"local", date, id>>,
               name |-> IF user.name = "" THEN NULL ELSE Some(user.name),
               email |-> Some(user.email),
               loginMethod |-> NULL,
               role |-> IF user.role = "" THEN "user" ELSE user.role,
               createdAt |-> Some(Epoch(t)), updatedAt |-> Some(Epoch(t)),
               lastSignedIn |-> Some(timestamp(date)) ]
        ELSE tbl[i]]

\* A row after an UPDATE: updatedAt is ON UPDATE CURRENT_TIMESTAMP, which
\* MySQL sets only when some column of the row changes value.
Touch(old, new, t) ==
    IF new = old THEN old ELSE [new EXCEPT !.updatedAt = Some(Epoch(t))]

\* A faulty updateUserLastSignedIn, whose UPDATE has no WHERE clause.
updateUserLastSignedIn_AllUsers(cfg, tbl, id, date, t) ==
    IF ~ getDb(cfg) THEN tbl
    ELSE [i \in DOMAIN tbl |->
            Touch(tbl[i], [tbl[i] EXCEPT !.lastSignedIn = Some(timestamp(date))], t)]

\* db.update(users).set({lastSignedIn: new Date()}).where(eq(users.id, id))
updateUserLastSignedIn(cfg, tbl, id, date, t) ==
    IF ~ getDb(cfg) THEN tbl
    ELSE [i \in DOMAIN tbl |->
            IF i = id
            THEN Touch(tbl[i],
                       [tbl[i] EXCEPT !.lastSignedIn = Some(timestamp(date))], t)
            ELSE tbl[i]]

\* db.update(users).set({role}).where(eq(users.id, id))
updateUserRole(tbl, id, role, t) ==
    [i \in DOMAIN tbl |->
        IF i = id THEN Touch(tbl[i], [tbl[i] EXCEPT !.role = role], t)
        ELSE tbl[i]]

----------------------------------------------------------------------------
(* Authentication: server/_core/auth.ts *)

\* A faulty authenticateRequest, which takes the role from the token.
authenticateRequest_TrustsClaims(session, user) ==
    IF session = None \/ user = None THEN None
    ELSE [user EXCEPT !.role = session.role]

\* What authenticateRequest(req) returns, given the session its token
\* verified to and the row getUserById(session.userId) selected: that row,
\* as it was selected; None when it throws Unauthorized.
authenticateRequest(session, user) ==
    IF session = None \/ user = None THEN None ELSE user

\* createContext({req, res}): the user of the request, or null when
\* authentication throws.
createContext(session, user) == authenticateRequest(session, user)

\* A faulty requireAdmin, which lets every signed-in user through.
requireAdmin_NoRoleCheck(user) ==
    IF user = None THEN "Unauthorized" ELSE "ok"

\* requireAdmin(user): "ok", or the error it throws.
requireAdmin(user) ==
    IF user = None THEN "Unauthorized"
    ELSE IF user.role # "admin" THEN "Forbidden"
    ELSE "ok"

\* The three access levels of a procedure.
publicProcedure(user)    == "ok"
protectedProcedure(user) == IF user = None THEN "Unauthorized" ELSE "ok"
adminProcedure(user)     == requireAdmin(user)

----------------------------------------------------------------------------
(* Schema: drizzle/schema.ts, drizzle/0002_add_backgrounds.sql *)

PhotoColumns ==
    {"title", "description", "location", "camera", "lens", "settings",
     "imageUrl", "imageKey", "category", "tags", "featured", "sortOrder",
     "publishedAt"}

EssayColumns ==
    {"title", "subtitle", "excerpt", "content", "coverImageUrl",
     "coverImageKey", "category", "tags", "readTime", "featured",
     "published", "publishedAt"}

PaperColumns ==
    {"title", "authors", "abstract", "journal", "year", "volume", "issue",
     "pages", "doi", "pdfUrl", "pdfKey", "category", "tags", "citations",
     "featured", "published", "publishedAt"}

BackgroundColumns == {"title", "imageUrl", "imageKey", "active", "sortOrder"}

\* The column defaults (.default(...)); a column without one defaults to NULL.
PhotoDefault(c) ==
    CASE c = "featured"  -> Some(FALSE)
      [] c = "sortOrder" -> Some(0)
      [] OTHER -> NULL

EssayDefault(c) ==
    CASE c = "featured"  -> Some(FALSE)
      [] c = "published" -> Some(FALSE)
      [] OTHER -> NULL

PaperDefault(c) ==
    CASE c = "citations" -> Some(0)
      [] c = "featured"  -> Some(FALSE)
      [] c = "published" -> Some(FALSE)
      [] OTHER -> NULL

BackgroundDefault(c) ==
    CASE c = "active"    -> Some(TRUE)
      [] c = "sortOrder" -> Some(0)
      [] OTHER -> NULL

SystemColumns == {"id", "createdAt", "updatedAt"}

\* The columns declared .notNull() that have no default, by table.
PhotoRequired      == {"title", "imageUrl"}
EssayRequired      == {"title", "content"}
PaperRequired      == {"title", "authors"}
BackgroundRequired == {"imageUrl"}

----------------------------------------------------------------------------
(* The drizzle query builder over a table (id -> row) *)

\* input[k], or undefined when the object has no key k.
Opt(input, k) == IF k \in DOMAIN input THEN input[k] ELSE Undefined

\* The keys of an object whose value is not undefined; null is a value.
Defined(input) == {k \in DOMAIN input : input[k] # Undefined}

\* if (x) for an optional string, and for an optional number.
GivenText(x)   == x # Undefined /\ x # NULL /\ x # Some("")
GivenNumber(x) == x # Undefined /\ x # NULL /\ x # Some(0)

\* {...input, [k]: v}
Spread(input, k, v) ==
    [x \in DOMAIN input \cup {k} |-> IF x = k THEN v ELSE input[x]]

\* const {id, ...data} = input
Rest(input) == [x \in DOMAIN input \ {"id"} |-> input[x]]

\* A value on its way into column c: a Date becomes a TIMESTAMP, null
\* becomes NULL.
TimestampColumns == {"publishedAt"}

Column(c, v) ==
    IF c \in TimestampColumns /\ v # NULL THEN Some(timestamp(v[1])) ELSE v

\* A faulty insert, which leaves an omitted column NULL instead of its default.
InsertRow_NoDefaults(id, t, input, DefaultRow) ==
    [c \in DOMAIN DefaultRow \cup SystemColumns |->
        CASE c = "id" -> id
          [] c \in {"createdAt", "updatedAt"} -> Some(Epoch(t))
          [] OTHER -> IF c \in Defined(input) THEN Column(c, input[c]) ELSE NULL]

\* db.insert(table).values(input): a key that is absent or undefined takes
\* the column default, a key that is null stores NULL; id is the
\* AUTO_INCREMENT value; createdAt and updatedAt are defaultNow().
InsertRow(id, t, input, DefaultRow) ==
    [c \in DOMAIN DefaultRow \cup SystemColumns |->
        CASE c = "id" -> id
          [] c \in {"createdAt", "updatedAt"} -> Some(Epoch(t))
          [] OTHER -> IF c \in Defined(input) THEN Column(c, input[c])
                      ELSE DefaultRow[c]]

InsertInto(tbl, id, t, input, DefaultRow) ==
    [i \in DOMAIN tbl \cup {id} |->
        IF i = id THEN InsertRow(id, t, input, DefaultRow) ELSE tbl[i]]

\* A faulty update, which writes NULL for a key given as undefined.
UpdateSet_NullsUndefined(tbl, id, t, patch) ==
    [i \in DOMAIN tbl |->
        IF i # id THEN tbl[i]
        ELSE Touch(tbl[i],
                   [c \in DOMAIN tbl[i] |->
                       IF c \in DOMAIN patch THEN Column(c, patch[c])
                       ELSE tbl[i][c]], t)]

\* db.update(table).set(patch).where(eq(table.id, id)): the keys of patch
\* that are undefined are dropped (drizzle's mapUpdateSet); the others
\* overwrite, null with NULL.
UpdateSet(tbl, id, t, patch) ==
    [i \in DOMAIN tbl |->
        IF i # id THEN tbl[i]
        ELSE Touch(tbl[i],
                   [c \in DOMAIN tbl[i] |->
                       IF c \in Defined(patch) THEN Column(c, patch[c])
                       ELSE tbl[i][c]], t)]

\* A faulty delete, which removes every row when row id exists.
DeleteWhere_All(tbl, id) ==
    IF id \in DOMAIN tbl THEN [i \in {} |-> tbl[i]] ELSE tbl

\* db.delete(table).where(eq(table.id, id))
DeleteWhere(tbl, id) == [i \in DOMAIN tbl \ {id} |-> tbl[i]]

\* db.select().from(table).where(eq(table.id, id)).limit(1)
SelectById(cfg, tbl, id) ==
    IF ~ getDb(cfg) THEN None
    ELSE IF id \in DOMAIN tbl THEN tbl[id] ELSE None

\* eq(column, value) on a column that is not text: SQL equality, never true
\* of NULL.
Eq(row, c, v) == row[c] = Some(v)

\* desc(column) on two rows: a sorts before b. MySQL puts NULL last in a
\* descending order.
DescBefore(a, b, c) ==
    IF a[c] = NULL THEN FALSE
    ELSE IF b[c] = NULL THEN TRUE
    ELSE a[c][1] > b[c][1]

DescEqual(a, b, c) ==
    \/ a[c] = NULL /\ b[c] = NULL
    \/ a[c] # NULL /\ b[c] # NULL /\ a[c][1] = b[c][1]

\* orderBy(desc(table[c]), desc(table.createdAt)): a must come before b.
\* The statement has no further sort key.
Before(a, b, c) ==
    \/ DescBefore(a, b, c)
    \/ DescEqual(a, b, c) /\ DescBefore(a, b, "createdAt")

\* The results the statement may have: the first n of the rows ids in an
\* order that agrees with the sort keys.  The database returns rows that
\* tie on both keys in any order, and under a LIMIT any of them.
RECURSIVE OrderBy(_, _, _, _)
OrderBy(tbl, ids, c, n) ==
    IF ids = {} \/ n = 0 THEN {<<>>}
    ELSE UNION { {<<tbl[i]>> \o rest :
                     rest \in OrderBy(tbl, ids \ {i}, c, n - 1)} :
                 i \in {k \in ids :
                          \A j \in ids : ~ Before(tbl[j], tbl[k], c)} }

\* What a list function's `await query` gives: the rows, or the statement
\* was rejected and the function throws.
Rows(rows) == [result |-> "ok", value |-> rows]
Rejected   == [result |-> "Error", value |-> None]

\* if (options?.limit) query = query.limit(options.limit), and the
\* statement executed.  A limit of 0 is falsy and sets no LIMIT.  A negative
\* limit is truthy and is passed to query.limit: the installed drizzle-orm
\* either leaves a negative LIMIT out of the statement or sends it, and
\* MySQL rejects LIMIT -1.
Limit(cfg, tbl, ids, c, options) ==
    LET l   == Opt(options, "limit")
        all == {Rows(rows) : rows \in OrderBy(tbl, ids, c, Cardinality(ids))}
    IN  IF ~ GivenNumber(l) THEN all
        ELSE IF l[1] < 0
        THEN IF cfg.negativeLimit = "dropped" THEN all ELSE {Rejected}
        ELSE {Rows(rows) : rows \in OrderBy(tbl, ids, c, l[1])}

\* The conditions pushed by getAll*: a flag filter applies when the option
\* is not undefined (eq(column, null) compares with NULL, which no row
\* satisfies), the category filter when the option is truthy.
FlagCondition(row, options, c) ==
    \/ Opt(options, c) = Undefined
    \/ Opt(options, c) # NULL /\ Eq(row, c, Opt(options, c)[1])

CategoryCondition(cfg, row, options) ==
    \/ ~ GivenText(Opt(options, "category"))
    \/ EqText(cfg, row.category, Opt(options, "category")[1])


PhotoDefaults      == [c \in PhotoColumns |-> PhotoDefault(c)]
EssayDefaults      == [c \in EssayColumns |-> EssayDefault(c)]
PaperDefaults      == [c \in PaperColumns |-> PaperDefault(c)]
BackgroundDefaults == [c \in BackgroundColumns |-> BackgroundDefault(c)]

----------------------------------------------------------------------------
(* Content repository: server/db.ts.  A write returns [result, table,     *)
(* value]: result is "ok" or "Error" (the function threw), table is the    *)
(* table afterwards.                                                       *)

Threw(tbl) == [result |-> "Error", table |-> tbl, value |-> None]

\* The statement would leave NULL in a NOT NULL column: the database (in
\* its default, strict mode) rejects it and writes nothing.
NotNullViolated(tbl, id, Required) ==
    id \in DOMAIN tbl /\ \E c \in Required : tbl[id][c] = NULL

Create(cfg, tbl, id, t, input, DefaultRow, Required) ==
    LET table == InsertInto(tbl, id, t, input, DefaultRow)
    IN  IF ~ getDb(cfg) \/ ~ Answers(cfg) THEN Threw(tbl)
        ELSE IF NotNullViolated(table, id, Required) THEN Threw(tbl)
        ELSE [ result |-> "ok", table |-> table, value |-> [id |-> id] ]

Update(cfg, tbl, id, t, patch, Required) ==
    LET table == UpdateSet(tbl, id, t, patch)
    IN  IF ~ getDb(cfg) \/ ~ Answers(cfg) THEN Threw(tbl)
        ELSE IF Defined(patch) = {} THEN Threw(tbl)   \* Error("No values to set")
        ELSE IF NotNullViolated(table, id, Required) THEN Threw(tbl)
        ELSE [ result |-> "ok", table |-> table,
               value |-> [success |-> TRUE] ]

Delete(cfg, tbl, id) ==
    IF ~ getDb(cfg) \/ ~ Answers(cfg) THEN Threw(tbl)
    ELSE [ result |-> "ok",
           table  |-> DeleteWhere(tbl, id),
           value  |-> [success |-> TRUE] ]

(* Photos *)

getAllPhotos(cfg, tbl, options) ==
    IF ~ getDb(cfg) THEN {Rows(<<>>)}
    ELSE IF ~ Answers(cfg) THEN {Rejected}
    ELSE LET ids == {i \in DOMAIN tbl :
                        /\ FlagCondition(tbl[i], options, "featured")
                        /\ CategoryCondition(cfg, tbl[i], options)}
         IN Limit(cfg, tbl, ids, "sortOrder", options)

getPhotoById(cfg, tbl, id) == SelectById(cfg, tbl, id)
createPhoto(cfg, tbl, id, t, photo) == Create(cfg, tbl, id, t, photo, PhotoDefaults, PhotoRequired)
updatePhoto(cfg, tbl, id, t, photo) == Update(cfg, tbl, id, t, photo, PhotoRequired)
deletePhoto(cfg, tbl, id) == Delete(cfg, tbl, id)

(* Essays *)

getAllEssays(cfg, tbl, options) ==
    IF ~ getDb(cfg) THEN {Rows(<<>>)}
    ELSE IF ~ Answers(cfg) THEN {Rejected}
    ELSE LET ids == {i \in DOMAIN tbl :
                        /\ FlagCondition(tbl[i], options, "published")
                        /\ FlagCondition(tbl[i], options, "featured")
                        /\ CategoryCondition(cfg, tbl[i], options)}
         IN Limit(cfg, tbl, ids, "publishedAt", options)

getEssayById(cfg, tbl, id) == SelectById(cfg, tbl, id)
createEssay(cfg, tbl, id, t, essay) == Create(cfg, tbl, id, t, essay, EssayDefaults, EssayRequired)

\* A faulty updateEssay, which clears publishedAt when it unpublishes.
updateEssay_CouplesPublishedAt(cfg, tbl, id, t, essay) ==
    LET r == Update(cfg, tbl, id, t, essay, EssayRequired)
    IN  IF /\ r.result = "ok"
           /\ id \in DOMAIN r.table
           /\ Opt(essay, "published") = Some(FALSE)
        THEN [r EXCEPT !.table[id].publishedAt = NULL]
        ELSE r

updateEssay(cfg, tbl, id, t, essay) == Update(cfg, tbl, id, t, essay, EssayRequired)
deleteEssay(cfg, tbl, id) == Delete(cfg, tbl, id)

(* Papers *)

getAllPapers(cfg, tbl, options) ==
    IF ~ getDb(cfg) THEN {Rows(<<>>)}
    ELSE IF ~ Answers(cfg) THEN {Rejected}
    ELSE LET ids == {i \in DOMAIN tbl :
                        /\ FlagCondition(tbl[i], options, "published")
                        /\ FlagCondition(tbl[i], options, "featured")
                        /\ CategoryCondition(cfg, tbl[i], options)}
         IN Limit(cfg, tbl, ids, "year", options)

getPaperById(cfg, tbl, id) == SelectById(cfg, tbl, id)
createPaper(cfg, tbl, id, t, paper) == Create(cfg, tbl, id, t, paper, PaperDefaults, PaperRequired)
updatePaper(cfg, tbl, id, t, paper) == Update(cfg, tbl, id, t, paper, PaperRequired)
deletePaper(cfg, tbl, id) == Delete(cfg, tbl, id)

(* Backgrounds *)

getAllBackgrounds(cfg, tbl, options) ==
    IF ~ getDb(cfg) THEN {Rows(<<>>)}
    ELSE IF ~ Answers(cfg) THEN {Rejected}
    ELSE LET ids == {i \in DOMAIN tbl : FlagCondition(tbl[i], options, "active")}
         IN Limit(cfg, tbl, ids, "sortOrder", options)

getBackgroundById(cfg, tbl, id) == SelectById(cfg, tbl, id)
createBackground(cfg, tbl, id, t, bg) == Create(cfg, tbl, id, t, bg, BackgroundDefaults, BackgroundRequired)
\* update(id, partialFields) -> success for any subset of the fields: a patch
\* that defines no column leaves the row as it is.
updateBackground(cfg, tbl, id, t, bg) ==
    IF getDb(cfg) /\ Answers(cfg) /\ Defined(bg) = {}
    THEN [ result |-> "ok", table |-> tbl, value |-> [success |-> TRUE] ]
    ELSE Update(cfg, tbl, id, t, bg, BackgroundRequired)
deleteBackground(cfg, tbl, id) == Delete(cfg, tbl, id)

----------------------------------------------------------------------------
(* Login: server/_core/auth.ts.  loginWithEmail awaits, in turn, the       *)
(* lookup by email, for a new user the INSERT and the SELECT of the new    *)
(* row, for a user to promote the UPDATE of the role, and the signing of   *)
(* the token; the operators below are what it computes between them.       *)

\* The argument of db.createUser: {email, name: email.split("@")[0],
\* role: isAdmin ? "admin" : "user"}.
NewUser(cfg, email) ==
    [ email |-> email, name |-> LocalPart(email),
      role |-> IF ToLowerCase(email) = ToLowerCase(cfg.adminEmail)
               THEN "admin" ELSE "user" ]

\* "Check if user should be admin based on ADMIN_EMAIL": the condition
\* under which loginWithEmail calls updateUserRole(user.id, "admin").
ShouldPromote(cfg, email, user) ==
    /\ cfg.adminEmail # ""
    /\ ToLowerCase(email) = ToLowerCase(cfg.adminEmail)
    /\ user.role # "admin"

\* createSessionToken({userId: user.id, email: user.email || "", role})
SessionFor(cfg, t, user) ==
    createSessionToken(cfg.jwtSecret, t,
        [ userId |-> user.id,
          email  |-> IF user.email = NULL THEN "" ELSE user.email[1],
          role   |-> user.role ],
        cfg.sessionMaxAge)

\* A faulty loginWithPassword, which does not tell a missing ADMIN_PASSWORD
\* from a wrong password.
loginWithPassword_UnauthorizedOnly(cfg, email, password) ==
    IF \/ cfg.adminPassword = ""
       \/ ToLowerCase(email) # ToLowerCase(cfg.adminEmail)
       \/ password # cfg.adminPassword
    THEN "Unauthorized"
    ELSE "ok"

\* loginWithPassword(email, password) up to its call of loginWithEmail: the
\* error it throws, or "ok" when it goes on to loginWithEmail(email).
loginWithPassword(cfg, email, password) ==
    IF cfg.adminPassword = "" THEN "Forbidden"
    ELSE IF \/ ToLowerCase(email) # ToLowerCase(cfg.adminEmail)
            \/ password # cfg.adminPassword
    THEN "Unauthorized"
    ELSE "ok"

----------------------------------------------------------------------------
(* upsertUser: server/db.ts *)

\* The role upsertUser writes, if any: the given one (null included), else
\* admin for the configured administrator email.
UpsertRole(cfg, user) ==
    LET email == Opt(user, "email")
    IN  IF Opt(user, "role") # Undefined THEN user.role
        ELSE IF /\ GivenText(email)
                /\ cfg.adminEmail # ""
                /\ ToLowerCase(email[1]) = ToLowerCase(cfg.adminEmail)
        THEN Some("admin")
        ELSE Undefined

\* upsertUser(user): [result, users, consumed], with date the time at which
\* the function read the clock and t the time at which the database
\* executes the statement.  The row with the
\* openId is inserted, or updated with updateSet: the text fields that are
\* not undefined (null is written as NULL), lastSignedIn and role when
\* given, and lastSignedIn alone when nothing else is set.  role and
\* lastSignedIn are NOT NULL columns.  INSERT ... ON DUPLICATE KEY UPDATE
\* reserves an AUTO_INCREMENT id before it meets the duplicate key, so the
\* statement consumes one whether it inserts or updates.
upsertUser(cfg, tbl, id, date, t, user) ==
    LET text     == {k \in {"name", "email", "loginMethod"} :
                        Opt(user, k) # Undefined}
        signedIn == Opt(user, "lastSignedIn")
        role     == UpsertRole(cfg, user)
        noSet    == text = {} /\ signedIn = Undefined /\ role = Undefined
        values   == [ id |-> id, openId |-> user.openId,
                      name |-> Nullish(Opt(user, "name")),
                      email |-> Nullish(Opt(user, "email")),
                      loginMethod |-> Nullish(Opt(user, "loginMethod")),
                      role |-> IF role = Undefined THEN "user"
                               ELSE IF role = NULL THEN NULL ELSE role[1],
                      createdAt |-> Some(Epoch(t)), updatedAt |-> Some(Epoch(t)),
                      lastSignedIn |-> IF signedIn = Undefined \/ signedIn = NULL
                                       THEN Some(timestamp(date))
                                       ELSE Some(timestamp(signedIn[1])) ]
        set(row) == [c \in DOMAIN row |->
                        IF c \in text THEN user[c]
                        ELSE IF c = "role" /\ role # Undefined
                             THEN IF role = NULL THEN NULL ELSE role[1]
                        ELSE IF c = "lastSignedIn" /\ signedIn # Undefined
                             THEN IF signedIn = NULL THEN NULL
                                  ELSE Some(timestamp(signedIn[1]))
                        ELSE IF c = "lastSignedIn" /\ noSet
                             THEN Some(timestamp(date))
                        ELSE row[c]]
        dup      == {i \in DOMAIN tbl : tbl[i].openId = user.openId}
        refused  == [result |-> "Error", users |-> tbl,
                     consumed |-> FALSE]
    IN  IF Opt(user, "openId") = Undefined \/ Opt(user, "openId") = NULL
        THEN refused
        ELSE IF ~ getDb(cfg)
        THEN [result |-> "ok", users |-> tbl,
              consumed |-> FALSE]
        ELSE IF ~ Answers(cfg) \/ role = NULL
        THEN refused
        ELSE IF dup = {}
        THEN [result |-> "ok", consumed |-> TRUE,
              users |-> [i \in DOMAIN tbl \cup {id} |->
                            IF i = id THEN values ELSE tbl[i]]]
        ELSE IF signedIn = NULL
        THEN [refused EXCEPT !.consumed = TRUE]
        ELSE [result |-> "ok", consumed |-> TRUE,
              users |-> [i \in DOMAIN tbl |->
                            IF i \in dup THEN Touch(tbl[i], set(tbl[i]), t)
                            ELSE tbl[i]]]

----------------------------------------------------------------------------
(* Session cookie options: server/_core/cookies.ts *)

\* proto.trim().toLowerCase() for the header entries the model sends.
TrimLower(proto) ==
    CASE proto = " HTTPS" -> "https"
      [] proto = "Https " -> "https"
      [] proto = " http"  -> "http"
      [] OTHER            -> proto

\* A faulty isSecureRequest, which reads only the first entry of
\* x-forwarded-proto and compares it as it was sent.
isSecureRequest_FirstEntryVerbatim(req) ==
    \/ Protocol(req) = "https"
    \/ /\ ForwardedProto(req) # <<>>
       /\ ForwardedProto(req)[1] = "https"

isSecureRequest(req) ==
    \/ Protocol(req) = "https"
    \/ \E i \in DOMAIN ForwardedProto(req) :
          TrimLower(ForwardedProto(req)[i]) = "https"

\* config.isProduction
isProduction(cfg) == cfg.nodeEnv = "production"

getSessionCookieOptions(cfg, req) ==
    [ httpOnly |-> TRUE,
      path     |-> "/",
      sameSite |-> IF isProduction(cfg) /\ isSecureRequest(req)
                   THEN "none" ELSE "lax",
      secure   |-> isSecureRequest(req) ]

\* A Set-Cookie header for the session cookie: res.cookie(name, value,
\* {...options, maxAge}).
SetCookie(value, options, maxAge) ==
    [ value |-> value, maxAge |-> maxAge, httpOnly |-> options.httpOnly,
      path |-> options.path, sameSite |-> options.sameSite,
      secure |-> options.secure ]

\* A faulty clearCookie, which sends the cookie back with the session's
\* lifetime.
clearCookie_KeepsLifetime(cfg, options) ==
    SetCookie(Blank, options, cfg.sessionMaxAge)

\* res.clearCookie(name, {...options, maxAge: -1}): an empty value that has
\* already expired.
clearCookie(cfg, options) == SetCookie(Blank, options, -1)

----------------------------------------------------------------------------
----------------------------------------------------------------------------
(* Authentication routes: server/_core/oauth.ts *)

\* !x for a value of the request body: absent, null or empty.
Falsy(x) == x = Undefined \/ x = NULL \/ x = Some("")

\* res.status(status), res.cookie(...) when cookie is not None, res.json(json)
Response(status, cookie, json) ==
    [status |-> status, cookie |-> cookie, json |-> json]

\* The user summary of the login response.
Summary(user) ==
    [ success |-> TRUE,
      user |-> [ id |-> user.id, email |-> user.email, name |-> user.name,
                 role |-> user.role ] ]

\* What loginWithPassword came to: the error it threw, or the user and the
\* token it returned.  NotCalled: it has not returned yet.
Outcome(result, user, token) == [result |-> result, user |-> user, token |-> token]
NotCalled == Outcome("pending", None, None)

\* A faulty login route, which hands a body without email or password to
\* loginWithPassword, where it fails.
postAuthLogin_NoBodyCheck(cfg, req, body, r) ==
    IF Falsy(body.email) \/ Falsy(body.password)
    THEN Response(401, None, [error |-> "Unauthorized"])
    ELSE IF r = NotCalled THEN None
    ELSE IF r.result = "ok"
    THEN Response(200,
                  SetCookie(r.token, getSessionCookieOptions(cfg, req),
                            cfg.sessionMaxAge),
                  Summary(r.user))
    ELSE Response(401, None, [error |-> r.result])

\* app.post("/api/auth/login"): the response, where r is what
\* loginWithPassword came to; None while the route awaits it.
postAuthLogin(cfg, req, body, r) ==
    IF Falsy(body.email) \/ Falsy(body.password)
    THEN Response(400, None, [error |-> "BadRequest"])
    ELSE IF r = NotCalled THEN None
    ELSE IF r.result = "ok"
    THEN Response(200,
                  SetCookie(r.token, getSessionCookieOptions(cfg, req),
                            cfg.sessionMaxAge),
                  Summary(r.user))
    ELSE Response(401, None, [error |-> r.result])

----------------------------------------------------------------------------
(* The state after construction *)

EmptyTable  == <<>>
EmptyInput  == <<>>
EmptyBucket == <<>>

EmptyDb ==
    [ users |-> EmptyTable, photos |-> EmptyTable, essays |-> EmptyTable,
      papers |-> EmptyTable, backgrounds |-> EmptyTable,
      siteSettings |-> EmptyTable ]

FirstIds == [users |-> 1, photos |-> 1, essays |-> 1, papers |-> 1, backgrounds |-> 1]

\* What is observed of a call that has returned: its name, the request that
\* carried it, the user its context resolved, its input, its outcome, the
\* session cookie its response sets or clears (None when it does neither)
\* and the time it arrived.
Reply(proc, user, input, result, value) ==
    [proc |-> proc, req |-> NoRequest, user |-> user, input |-> input,
     result |-> result, value |-> value, cookie |-> None, at |-> now]

Call(proc, req, user, input, result, value) ==
    [Reply(proc, user, input, result, value) EXCEPT !.req = req]

NoCall == Reply("start", None, EmptyInput, "ok", None)

\* No call has returned in this step: some call is awaiting a statement.
Awaiting == Reply("await", None, EmptyInput, "ok", None)

\* The server has just started with configuration cfg: empty tables, an
\* empty bucket, no session issued.  A process whose configuration cannot
\* be built does not start.
Start(cfg) ==
    /\ buildConfig(cfg) = "ok"
    /\ now = 0
    /\ config = cfg
    /\ db = EmptyDb
    /\ autoInc = FirstIds
    /\ objects = EmptyBucket
    /\ s3Client = None
    /\ presigned = {}
    /\ pending = {}
    /\ issued = {}
    /\ last = NoCall

----------------------------------------------------------------------------
(* Calls in flight.  A call is suspended at each statement it awaits; pc   *)
(* names the statement it has issued and is waiting for.                   *)

\* No call is in flight.
Idle == pending = {}

\* An identifier of a call, unused among the calls in flight.
FreshPid ==
    CHOOSE n \in 1..(Cardinality(pending) + 1) : \A p \in pending : p.pid # n

\* A call that has just arrived and awaits its first statement: session is
\* the session of its token, user the row selected for it, date the Date its
\* code read last, acc the other locals of its handler.
NewCall(proc, req, input, pc) ==
    [ pid |-> FreshPid, proc |-> proc, req |-> req, input |-> input,
      at |-> now, pc |-> pc, session |-> None, user |-> None, date |-> now,
      acc |-> None ]

\* The call p goes on waiting, now in the state q.
Await(p, q) ==
    /\ pending' = {x \in pending : x.pid # p.pid} \cup {q}
    /\ last' = Awaiting

\* The call p returns.
Finish(p, user, result, value, cookie) ==
    /\ pending' = {x \in pending : x.pid # p.pid}
    /\ last' = [Call(p.proc, p.req, user, p.input, result, value)
                  EXCEPT !.cookie = cookie, !.at = p.at]

\* The calls in flight of a procedure with a request and an input, waiting
\* at pc.
InFlight(proc, req, input, pc) ==
    {p \in pending :
        p.proc = proc /\ p.req = req /\ p.input = input /\ p.pc = pc}

----------------------------------------------------------------------------
(* Time, and the session service's operations *)

Tick(d) ==
    /\ now' = now + d
    /\ UNCHANGED <<config, db, autoInc, objects, s3Client, presigned, pending,
                   issued, last>>

\* What a client keeps of a token it was given.
Grant(token, t, expiresInMs) ==
    [token |-> token, issuedAt |-> t, expiresInMs |-> expiresInMs]

\* A login call p returns r, what loginWithEmail or loginWithPassword came
\* to; the login route turns it into its response.
FinishLogin(p, r) ==
    /\ issued' = IF r.result = "ok"
                 THEN issued \cup {Grant(r.token, now, config.sessionMaxAge)}
                 ELSE issued
    /\ IF p.proc = "POST /api/auth/login"
       THEN LET response == postAuthLogin(config, p.req, p.input, r)
            IN  Finish(p, r.user, r.result, response, response.cookie)
       ELSE Finish(p, r.user, r.result, r.token, None)

\* loginWithEmail with the user it settled on, selected or created: the
\* role is promoted by an UPDATE that it awaits, or the token is signed.
LoginAs(p, user) ==
    IF ShouldPromote(config, p.acc.email, user)
    THEN /\ Await(p, [p EXCEPT !.pc = "promote", !.user = user])
         /\ UNCHANGED issued
    ELSE FinishLogin(p, Outcome("ok", user, SessionFor(config, now, user)))

\* loginWithEmail(email) is called: it issues the lookup by email.
BeginLogin(proc, req, input, email) ==
    /\ Await(NewCall(proc, req, input, "lookup"),
             [NewCall(proc, req, input, "lookup")
                EXCEPT !.acc = [email |-> email, id |-> 0]])
    /\ UNCHANGED <<now, config, db, autoInc, objects, s3Client, presigned,
                   issued>>

\* await db.getUserByEmail(email) returns, or rejects and loginWithEmail
\* throws.  Without a row, createUser is called, which throws without a
\* database and else reads the clock and issues the INSERT.
LoginLookup ==
    \E p \in {q \in pending : q.pc = "lookup"} :
      \E found \in getUserByEmail(config, db.users, p.acc.email) :
        /\ IF ~ Answers(config)
           THEN FinishLogin(p, Outcome("Error", None, None))
           ELSE IF found # None THEN LoginAs(p, found)
           ELSE IF ~ getDb(config)
           THEN FinishLogin(p, Outcome("Error", None, None))
           ELSE /\ Await(p, [p EXCEPT !.pc = "insert", !.date = now])
                /\ UNCHANGED issued
        /\ UNCHANGED <<now, config, db, autoInc, objects, s3Client, presigned>>

\* The INSERT of createUser is executed; loginWithEmail issues the SELECT
\* of the new row by its id.
LoginInsert ==
    \E p \in pending :
        /\ p.pc = "insert"
        /\ db' = [db EXCEPT !.users =
                     createUser(db.users, autoInc.users, p.date, now,
                                NewUser(config, p.acc.email))]
        /\ autoInc' = [autoInc EXCEPT !.users = @ + 1]
        /\ Await(p, [p EXCEPT !.pc = "reselect", !.acc.id = autoInc.users])
        /\ UNCHANGED <<now, config, objects, s3Client, presigned, issued>>

\* await db.getUserById(result.id) returns: "Failed to create user" when
\* the row is not there.
LoginReselect ==
    \E p \in pending :
        /\ p.pc = "reselect"
        /\ LET user == getUserById(config, db.users, p.acc.id)
           IN  IF user = None
               THEN FinishLogin(p, Outcome("Error", None, None))
               ELSE LoginAs(p, user)
        /\ UNCHANGED <<now, config, db, autoInc, objects, s3Client, presigned>>

\* The UPDATE of updateUserRole(user.id, "admin") is executed; the token is
\* signed for {...user, role: "admin"}.
LoginPromote ==
    \E p \in pending :
        /\ p.pc = "promote"
        /\ db' = [db EXCEPT !.users =
                     updateUserRole(db.users, p.user.id, "admin", now)]
        /\ LET user == [p.user EXCEPT !.role = "admin"]
           IN  FinishLogin(p, Outcome("ok", user, SessionFor(config, now, user)))
        /\ UNCHANGED <<now, config, autoInc, objects, s3Client, presigned>>

\* loginWithEmail(email) is called.
CallLoginWithEmail(email) ==
    BeginLogin("loginWithEmail", NoRequest, [email |-> email], email)

\* loginWithEmail(email), called while no other call is in flight.
LoginWithEmail(email) == Idle /\ CallLoginWithEmail(email)

\* loginWithPassword(email, password) is called: refused at once, or on to
\* loginWithEmail(email).
CallLoginWithPassword(email, password) ==
    LET input == [email |-> email, password |-> password]
        check == loginWithPassword(config, email, password)
    IN  IF check = "ok"
        THEN BeginLogin("loginWithPassword", NoRequest, input, email)
        ELSE /\ FinishLogin(NewCall("loginWithPassword", NoRequest, input, "lookup"),
                            Outcome(check, None, None))
             /\ UNCHANGED <<now, config, db, autoInc, objects, s3Client,
                            presigned>>

\* loginWithPassword(email, password), called while no other call is in
\* flight.
LoginWithPassword(email, password) ==
    Idle /\ CallLoginWithPassword(email, password)

\* app.post("/api/auth/login"): 400 for a body without email or password,
\* else loginWithPassword(email, password).
PostAuthLogin(req, body) ==
    LET proc  == "POST /api/auth/login"
        early == postAuthLogin(config, req, body, NotCalled)
        check == loginWithPassword(config, body.email[1], body.password[1])
    IN  IF early # None
        THEN /\ Idle
             /\ Finish(NewCall(proc, req, body, "lookup"), None,
                       IF early.status = 400 THEN "BadRequest" ELSE "Unauthorized",
                       early, early.cookie)
             /\ UNCHANGED <<now, config, db, autoInc, objects, s3Client,
                            presigned, issued>>
        ELSE IF check = "ok"
        THEN Idle /\ BeginLogin(proc, req, body, body.email[1])
        ELSE /\ Idle
             /\ FinishLogin(NewCall(proc, req, body, "lookup"),
                            Outcome(check, None, None))
             /\ UNCHANGED <<now, config, db, autoInc, objects, s3Client,
                            presigned>>

\* upsertUser(user) is called on the repository: it throws without an
\* openId and returns without a database; else it builds values and
\* updateSet, reading the clock for lastSignedIn, and issues the INSERT ...
\* ON DUPLICATE KEY UPDATE, which it awaits.
UpsertUser(user) ==
    LET p == NewCall("upsertUser", NoRequest, user, "statement")
    IN  /\ IF Opt(user, "openId") = Undefined \/ Opt(user, "openId") = NULL
           THEN Finish(p, None, "Error", None, None)
           ELSE IF ~ getDb(config)
           THEN Finish(p, None, "ok", None, None)
           ELSE Await(p, p)
        /\ UNCHANGED <<now, config, db, autoInc, objects, s3Client, presigned,
                       issued>>

\* The statement of an upsertUser in flight is executed, at a time that
\* may be later than the time p.date at which the call read the clock.
UpsertStatement ==
    \E p \in {q \in pending : q.proc = "upsertUser"} :
        LET r == upsertUser(config, db.users, autoInc.users, p.date, now,
                            p.input)
        IN  /\ db' = [db EXCEPT !.users = r.users]
            /\ autoInc' = IF r.consumed THEN [autoInc EXCEPT !.users = @ + 1]
                          ELSE autoInc
            /\ Finish(p, None, r.result, None, None)
            /\ UNCHANGED <<now, config, objects, s3Client, presigned, issued>>

\* A faulty logout route, which authenticates the request as the router's
\* context does and stamps the user it finds.
PostAuthLogout_WithContext(req) ==
    LET cookie  == SetCookie(Blank, getSessionCookieOptions(config, req), -1)
        session == verifySessionToken(config, now, getSessionToken(req))
        user    == IF session = None THEN None
                   ELSE getUserById(config, db.users, session.userId)
    IN  /\ db' = IF user = None THEN db
                 ELSE [db EXCEPT !.users =
                          updateUserLastSignedIn(config, db.users, user.id,
                                                 now, now)]
        /\ last' = [Call("POST /api/auth/logout", req, None, EmptyInput, "ok",
                          Response(200, cookie, [success |-> TRUE]))
                       EXCEPT !.cookie = cookie]
        /\ UNCHANGED <<now, config, autoInc, objects, s3Client, presigned,
                       pending, issued>>

\* app.post("/api/auth/logout"): a synchronous handler; no context is
\* created and nothing is read of the request but its transport.
PostAuthLogout(req) ==
    LET cookie == clearCookie(config, getSessionCookieOptions(config, req))
    IN  /\ last' = [Call("POST /api/auth/logout", req, None, EmptyInput, "ok",
                          Response(200, cookie, [success |-> TRUE]))
                       EXCEPT !.cookie = cookie]
        /\ UNCHANGED <<now, config, db, autoInc, objects, s3Client, presigned,
                       pending, issued>>

\* createSessionToken(payload, {expiresInMs}) for a stored user.
CreateSessionToken(id, expiresInMs) ==
    /\ id \in DOMAIN db.users
    /\ LET u == db.users[id]
           token == createSessionToken(config.jwtSecret, now,
                        [userId |-> u.id, email |-> u.email[1], role |-> u.role],
                        expiresInMs)
       IN /\ issued' = issued \cup {Grant(token, now, expiresInMs)}
          /\ last' = Reply("createSessionToken", None,
                           [expiresInMs |-> expiresInMs], "ok", token)
    /\ UNCHANGED <<now, config, db, autoInc, objects, s3Client, presigned, pending>>

\* createSessionToken(payload) for a stored user, with any email and role
\* in the payload.
CreateSessionTokenAs(id, email, role) ==
    /\ id \in DOMAIN db.users
    /\ LET token == createSessionToken(config.jwtSecret, now,
                        [userId |-> id, email |-> email, role |-> role],
                        config.sessionMaxAge)
       IN /\ issued' = issued \cup {Grant(token, now, config.sessionMaxAge)}
          /\ last' = Reply("createSessionToken", None,
                           [userId |-> id, email |-> email, role |-> role],
                           "ok", token)
    /\ UNCHANGED <<now, config, db, autoInc, objects, s3Client, presigned, pending>>

\* updateUserRole(id, role), called on the repository: it throws 'Database
\* not available' without a handle, and otherwise awaits one UPDATE, which
\* rejects, and writes nothing, when the server does not answer.
UpdateUserRole(id, role) ==
    LET done == getDb(config) /\ Answers(config)
    IN  /\ db' = IF done
                 THEN [db EXCEPT !.users = updateUserRole(db.users, id, role, now)]
                 ELSE db
        /\ last' = Reply("updateUserRole", None, [id |-> id, role |-> role],
                         IF done THEN "ok" ELSE "Error", None)
        /\ UNCHANGED <<now, config, autoInc, objects, s3Client, presigned, pending,
                       issued>>

\* The same, in another deployment of the service, whose JWT_SECRET is secret.
ForeignSessionToken(secret, id, role, expiresInMs) ==
    /\ secret # config.jwtSecret
    /\ id \in DOMAIN db.users
    /\ LET u == db.users[id]
           token == createSessionToken(secret, now,
                        [userId |-> u.id, email |-> u.email[1], role |-> role],
                        expiresInMs)
       IN /\ issued' = issued \cup {Grant(token, now, expiresInMs)}
          /\ last' = Reply("foreign.createSessionToken", None,
                           [expiresInMs |-> expiresInMs], "ok", token)
    /\ UNCHANGED <<now, config, db, autoInc, objects, s3Client, presigned, pending>>

\* createSessionToken(payload, {expiresInMs}) for the id that the users
\* table assigns next: a session whose user is not stored.
CreateSessionTokenAhead(email, role, expiresInMs) ==
    /\ LET token == createSessionToken(config.jwtSecret, now,
                        [userId |-> autoInc.users, email |-> email,
                         role |-> role], expiresInMs)
       IN /\ issued' = issued \cup {Grant(token, now, expiresInMs)}
          /\ last' = Reply("createSessionToken", None,
                           [expiresInMs |-> expiresInMs], "ok", token)
    /\ UNCHANGED <<now, config, db, autoInc, objects, s3Client, presigned, pending>>

\* verifySessionToken(token) on a token a client presents.
VerifySessionToken(token) ==
    /\ last' = Reply("verifySessionToken", None, [token |-> token], "ok",
                     verifySessionToken(config, now, token))
    /\ UNCHANGED <<now, config, db, autoInc, objects, s3Client, presigned,
                   pending, issued>>

\* getSessionToken(req) on a request.
GetSessionToken(req) ==
    /\ last' = Call("getSessionToken", req, None, EmptyInput, "ok",
                    getSessionToken(req))
    /\ UNCHANGED <<now, config, db, autoInc, objects, s3Client, presigned,
                   pending, issued>>

----------------------------------------------------------------------------
(* Storage service: server/storage.ts.  A key is [slashes, path]: the      *)
(* number of slashes it begins with and the rest of it; an object of the   *)
(* bucket is [contentType, body]; the bucket maps keys to objects.         *)

\* new S3Client({region, credentials}): the handle holds the credentials.
S3Client(cfg) ==
    [accessKeyId |-> cfg.accessKeyId, secretAccessKey |-> cfg.secretAccessKey]

\* A faulty getS3Client, which constructs and caches the client before it
\* looks at the configuration.
getS3Client_ConstructsFirst(cfg, client) ==
    IF client # None THEN [result |-> "ok", client |-> client]
    ELSE IF cfg.accessKeyId = "" \/ cfg.secretAccessKey = "" \/ cfg.bucket = ""
    THEN [result |-> "Error", client |-> S3Client(cfg)]
    ELSE [result |-> "ok", client |-> S3Client(cfg)]

\* getS3Client(): [result, client], where client is _s3Client afterwards.
getS3Client(cfg, client) ==
    IF client # None THEN [result |-> "ok", client |-> client]
    ELSE IF cfg.accessKeyId = "" \/ cfg.secretAccessKey = "" \/ cfg.bucket = ""
    THEN [result |-> "Error", client |-> None]
    ELSE [result |-> "ok", client |-> S3Client(cfg)]

\* key.replace(/^\/+/, "")
normalizeKey(key) == [key EXCEPT !.slashes = 0]

\* constructPublicUrl(key)
constructPublicUrl(key) == [public |-> normalizeKey(key)]

\* The bucket after a PutObject and after a DeleteObject: a put replaces
\* the object the key had, a delete of a key without object changes nothing.
PutObject(bucket, key, object) ==
    [k \in DOMAIN bucket \cup {key} |-> IF k = key THEN object ELSE bucket[k]]

DeleteObject(bucket, key) == [k \in DOMAIN bucket \ {key} |-> bucket[k]]

\* What a storage function came to when it threw, and when it returned.
StorageThrew(client, bucket) ==
    [result |-> "Error", client |-> client, objects |-> bucket, value |-> None]

\* storagePut(key, data, contentType): [result, client, objects, value].
\* sent: s3.send(command) succeeded; when it rejects, nothing is stored and
\* storagePut throws.
storagePut(cfg, client, bucket, key, data, contentType, sent) ==
    LET s3 == getS3Client(cfg, client)
    IN  IF s3.result # "ok" \/ ~ sent THEN StorageThrew(s3.client, bucket)
        ELSE [ result |-> "ok", client |-> s3.client,
               objects |-> PutObject(bucket, normalizeKey(key),
                                     [contentType |-> contentType, body |-> data]),
               value |-> [ key |-> normalizeKey(key),
                           url |-> constructPublicUrl(normalizeKey(key)) ] ]

\* storageDelete(key)
storageDelete(cfg, client, bucket, key, sent) ==
    LET s3 == getS3Client(cfg, client)
    IN  IF s3.result # "ok" \/ ~ sent THEN StorageThrew(s3.client, bucket)
        ELSE [ result |-> "ok", client |-> s3.client,
               objects |-> DeleteObject(bucket, normalizeKey(key)),
               value |-> None ]

\* getSignedUrl(s3, command, {expiresIn}): a URL that carries the command
\* and is valid for expiresIn seconds from the time it is signed.
getSignedUrl(method, key, contentType, expiresIn, t) ==
    [ method |-> method, key |-> key, contentType |-> contentType,
      expires |-> Epoch(t) + expiresIn ]

\* storageGet(key, expiresIn): a signed download URL, whether or not the
\* key has an object.
storageGet(cfg, client, bucket, key, expiresIn, t) ==
    LET s3 == getS3Client(cfg, client)
    IN  IF s3.result # "ok" THEN StorageThrew(s3.client, bucket)
        ELSE [ result |-> "ok", client |-> s3.client, objects |-> bucket,
               value |-> [ key |-> normalizeKey(key),
                           url |-> getSignedUrl("GET", normalizeKey(key), "",
                                                expiresIn, t) ] ]

\* expiresIn: number = 3600 (storageGet), = 900 (getPresignedUploadUrl)
DownloadExpiry == 3600
UploadExpiry   == 900

\* getPresignedUploadUrl(key, contentType, expiresIn)
getPresignedUploadUrl(cfg, client, bucket, key, contentType, expiresIn, t) ==
    LET s3 == getS3Client(cfg, client)
    IN  IF s3.result # "ok" THEN StorageThrew(s3.client, bucket)
        ELSE [ result |-> "ok", client |-> s3.client, objects |-> bucket,
               value |-> [ key |-> normalizeKey(key),
                           uploadUrl |-> getSignedUrl("PUT", normalizeKey(key),
                                                      contentType, expiresIn, t),
                           publicUrl |-> constructPublicUrl(normalizeKey(key)) ] ]

\* express.json({ limit: "50mb" }), in megabytes.
JsonLimit == 50

\* A file of n megabytes, as the base64Data of an upload.
Payload(n) == [megabytes |-> n]

\* The length of the base64 text of n megabytes, in megabytes (rounded up).
Base64Length(n) == (4 * n + 2) \div 3

\* nanoid(): an identifier that no key of the bucket and no upload in
\* flight has.
Nanoid ==
    CHOOSE n \in 0..(Cardinality(DOMAIN objects) + Cardinality(pending)) :
        /\ \A k \in DOMAIN objects : k.path[2] # n
        /\ \A p \in pending : "key" \in DOMAIN p.acc => p.acc.key.path[2] # n

\* `${folder}/${nanoid()}-${filename}`
FileKey(folder, id, filename) ==
    [slashes |-> 0, path |-> <<folder, id, filename>>]

----------------------------------------------------------------------------
(* The router: server/routers.ts.  Every procedure runs createContext,     *)
(* then its access level, then its handler.  createContext awaits          *)
(* authenticateRequest, which awaits the SELECT of the user and then the   *)
(* UPDATE of lastSignedIn; the handlers of the content procedures await    *)
(* one statement, search.query three, the uploads the PutObject.           *)

Gate(level, user) ==
    CASE level = "public"    -> publicProcedure(user)
      [] level = "protected" -> protectedProcedure(user)
      [] level = "admin"     -> adminProcedure(user)

Read(value) == [result |-> "ok", value |-> value]

\* An awaited SELECT of one row came to value, the row or nothing; it
\* rejects when the server does not answer.
Select(cfg, value) == IF Answers(cfg) THEN Read(value) ELSE Rejected

UploadProcs == {"upload.image", "upload.pdf"}

\* The handler of upload.image / upload.pdf up to the PutObject it awaits:
\* isStorageConfigured(), the key, and storagePut up to s3.send.
BeginUpload(p, user) ==
    LET folder == IF p.proc = "upload.image" THEN "images" ELSE "pdfs"
        type   == IF p.proc = "upload.image" THEN p.input.contentType[1]
                  ELSE "application/pdf"
        s3     == getS3Client(config, s3Client)
    IN  IF ~ isStorageConfigured(config)
        THEN /\ Finish(p, user, "Error", None, None)
             /\ UNCHANGED s3Client
        ELSE /\ s3Client' = s3.client
             /\ IF s3.result # "ok"
                THEN Finish(p, user, "Error", None, None)
                ELSE Await(p, [p EXCEPT !.pc = "send", !.user = user,
                                 !.acc = [ key |-> FileKey(folder, Nanoid,
                                                           p.input.filename[1]),
                                           contentType |-> type ]])

\* The code that runs once the context of call p has resolved to user: the
\* access level, then the handler up to the first statement it awaits.
\* auth.me and auth.logout await nothing; authenticateRequest, called by
\* itself, returns the user or throws: Unauthorized, or the error of the
\* SELECT that rejected.
Enter(p, level, user) ==
    LET gate == Gate(level, user)
    IN  IF gate # "ok"
        THEN Finish(p, user, gate, None, None) /\ UNCHANGED s3Client
        ELSE CASE p.proc = "authenticateRequest" ->
                    /\ Finish(p, user,
                              IF user # None THEN "ok"
                              ELSE IF p.session # None /\ ~ Answers(config)
                              THEN "Error" ELSE "Unauthorized",
                              user, None)
                    /\ UNCHANGED s3Client
               [] p.proc = "auth.me" ->
                    Finish(p, user, "ok", user, None) /\ UNCHANGED s3Client
               [] p.proc = "auth.logout" ->
                    /\ Finish(p, user, "ok", [success |-> TRUE],
                              clearCookie(config,
                                  getSessionCookieOptions(config, p.req)))
                    /\ UNCHANGED s3Client
               [] p.proc \in UploadProcs -> BeginUpload(p, user)
               [] OTHER ->
                    /\ Await(p, [p EXCEPT !.pc = "handler", !.user = user])
                    /\ UNCHANGED s3Client

\* A request arrives: getSessionToken and verifySessionToken; with a
\* session, the SELECT of its user is issued.
Receive(proc, level, req, input) ==
    LET p       == NewCall(proc, req, input, "select")
        session == verifySessionToken(config, now, getSessionToken(req))
    IN  /\ IF session = None
           THEN Enter(p, level, createContext(None, None))
           ELSE /\ Await(p, [p EXCEPT !.session = session])
                /\ UNCHANGED s3Client
        /\ UNCHANGED <<now, config, db, autoInc, objects, presigned, issued>>

\* await db.getUserById(session.userId) returns: Unauthorized without a
\* row, else the clock is read and the UPDATE of lastSignedIn is issued.
\* When the SELECT rejects, authenticateRequest throws as it does without
\* a row, and createContext catches it.
ContextSelect(proc, level, req, input) ==
    \E p \in InFlight(proc, req, input, "select") :
        LET user == IF Answers(config)
                    THEN getUserById(config, db.users, p.session.userId)
                    ELSE None
        IN  /\ IF user = None
               THEN Enter(p, level, createContext(p.session, None))
               ELSE /\ Await(p, [p EXCEPT !.pc = "stamp", !.user = user,
                                    !.date = now])
                    /\ UNCHANGED s3Client
            /\ UNCHANGED <<now, config, db, autoInc, objects, presigned, issued>>

\* The UPDATE of updateUserLastSignedIn(user.id) is executed;
\* authenticateRequest returns the user it selected.
ContextStamp(proc, level, req, input) ==
    \E p \in InFlight(proc, req, input, "stamp") :
        /\ db' = [db EXCEPT !.users =
                     updateUserLastSignedIn(config, db.users, p.user.id,
                                            p.date, now)]
        /\ Enter(p, level, createContext(p.session, p.user))
        /\ UNCHANGED <<now, config, autoInc, objects, presigned, issued>>

\* createContext and the access level of a call, one call at a time.
Context(proc, level, req, input) ==
    \/ Idle /\ Receive(proc, level, req, input)
    \/ ContextSelect(proc, level, req, input)
    \/ ContextStamp(proc, level, req, input)

\* A call that arrives while others are in flight; its later steps are
\* those of its procedure.
Overlap(proc, level, req, input) ==
    ~ Idle /\ Receive(proc, level, req, input)

\* A procedure that reads: rs are the results its handler may have on the
\* state in which its statement is executed.
Query(proc, level, req, input, rs) ==
    \/ Context(proc, level, req, input)
    \/ \E p \in InFlight(proc, req, input, "handler"), r \in rs :
          /\ Finish(p, p.user, r.result, r.value, None)
          /\ UNCHANGED <<now, config, db, autoInc, objects, s3Client,
                         presigned, issued>>

\* A procedure that writes table tn: r is its handler's result on the
\* state in which its statement is executed; inserted tells whether it
\* consumed an AUTO_INCREMENT id.
Mutation(proc, level, req, input, tn, r, inserted) ==
    \/ Context(proc, level, req, input)
    \/ \E p \in InFlight(proc, req, input, "handler") :
          /\ db' = [db EXCEPT ![tn] = r.table]
          /\ autoInc' = IF r.result = "ok" /\ inserted
                        THEN [autoInc EXCEPT ![tn] = @ + 1] ELSE autoInc
          /\ Finish(p, p.user, r.result, r.value, None)
          /\ UNCHANGED <<now, config, objects, s3Client, presigned, issued>>

\* authenticateRequest(req), called by itself: the user it returns, or
\* Unauthorized.
AuthenticateRequest(req) ==
    Context("authenticateRequest", "public", req, EmptyInput)

(* auth *)

\* A faulty auth.me, declared as a protected procedure.
AuthMe_Protected(req) == Context("auth.me", "protected", req, EmptyInput)

\* me: publicProcedure.query(opts => opts.ctx.user)
AuthMe(req) == Context("auth.me", "public", req, EmptyInput)

\* A faulty auth.logout behind protectedProcedure.
AuthLogout_Protected(req) == Context("auth.logout", "protected", req, EmptyInput)

\* auth.logout: a public mutation, which clears the session cookie on
\* ctx.res and returns {success: true}.
AuthLogout(req) == Context("auth.logout", "public", req, EmptyInput)

(* photos *)

PhotosList(req, input) ==
    Query("photos.list", "public", req, input,
          getAllPhotos(config, db.photos, input))

PhotosGet(req, input) ==
    Query("photos.get", "public", req, input,
          {Select(config, getPhotoById(config, db.photos, input.id[1]))})

PhotosCreate(req, input) ==
    Mutation("photos.create", "admin", req, input, "photos",
             createPhoto(config, db.photos, autoInc.photos, now, input), TRUE)

PhotosUpdate(req, input) ==
    Mutation("photos.update", "admin", req, input, "photos",
             updatePhoto(config, db.photos, input.id[1], now, Rest(input)), FALSE)

PhotosDelete(req, input) ==
    Mutation("photos.delete", "admin", req, input, "photos",
             deletePhoto(config, db.photos, input.id[1]), FALSE)

(* essays *)

\* A faulty essays.list, which passes the caller's published filter on.
EssaysList_TrustsInput(req, input) ==
    Query("essays.list", "public", req, input,
          getAllEssays(config, db.essays, input))

EssaysList(req, input) ==
    Query("essays.list", "public", req, input,
          getAllEssays(config, db.essays,
                            Spread(input, "published", Some(TRUE))))

EssaysListAll(req, input) ==
    Query("essays.listAll", "admin", req, input,
          getAllEssays(config, db.essays, input))

EssaysGet(req, input) ==
    Query("essays.get", "public", req, input,
          {Select(config, getEssayById(config, db.essays, input.id[1]))})

EssaysCreate(req, input) ==
    Mutation("essays.create", "admin", req, input, "essays",
             createEssay(config, db.essays, autoInc.essays, now, input), TRUE)

EssaysUpdate(req, input) ==
    Mutation("essays.update", "admin", req, input, "essays",
             updateEssay(config, db.essays, input.id[1], now, Rest(input)), FALSE)

EssaysDelete(req, input) ==
    Mutation("essays.delete", "admin", req, input, "essays",
             deleteEssay(config, db.essays, input.id[1]), FALSE)

(* papers *)

PapersList(req, input) ==
    Query("papers.list", "public", req, input,
          getAllPapers(config, db.papers,
                            Spread(input, "published", Some(TRUE))))

PapersListAll(req, input) ==
    Query("papers.listAll", "admin", req, input,
          getAllPapers(config, db.papers, input))

PapersGet(req, input) ==
    Query("papers.get", "public", req, input,
          {Select(config, getPaperById(config, db.papers, input.id[1]))})

PapersCreate(req, input) ==
    Mutation("papers.create", "admin", req, input, "papers",
             createPaper(config, db.papers, autoInc.papers, now, input), TRUE)

PapersUpdate(req, input) ==
    Mutation("papers.update", "admin", req, input, "papers",
             updatePaper(config, db.papers, input.id[1], now, Rest(input)), FALSE)

PapersDelete(req, input) ==
    Mutation("papers.delete", "admin", req, input, "papers",
             deletePaper(config, db.papers, input.id[1]), FALSE)

(* backgrounds *)

BackgroundsList(req, input) ==
    Query("backgrounds.list", "public", req, input,
          getAllBackgrounds(config, db.backgrounds,
                                 Spread(input, "active", Some(TRUE))))

BackgroundsListAll(req, input) ==
    Query("backgrounds.listAll", "admin", req, input,
          getAllBackgrounds(config, db.backgrounds, input))

BackgroundsGet(req, input) ==
    Query("backgrounds.get", "public", req, input,
          {Select(config, getBackgroundById(config, db.backgrounds, input.id[1]))})

BackgroundsCreate(req, input) ==
    Mutation("backgrounds.create", "admin", req, input, "backgrounds",
             createBackground(config, db.backgrounds, autoInc.backgrounds, now,
                              input), TRUE)

BackgroundsUpdate(req, input) ==
    Mutation("backgrounds.update", "admin", req, input, "backgrounds",
             updateBackground(config, db.backgrounds, input.id[1], now,
                              Rest(input)), FALSE)

BackgroundsDelete(req, input) ==
    Mutation("backgrounds.delete", "admin", req, input, "backgrounds",
             deleteBackground(config, db.backgrounds, input.id[1]), FALSE)

----------------------------------------------------------------------------
(* Search: server/db.ts searchContent *)

\* .limit(20)
SearchLimit == 20

\* text LIKE pattern: % matches any run of characters, _ any one character;
\* characters compare under the column's collation.
RECURSIVE LikePattern(_, _, _)
LikePattern(cfg, text, pattern) ==
    IF pattern = <<>> THEN text = <<>>
    ELSE IF Head(pattern) = "%"
         THEN \/ LikePattern(cfg, text, Tail(pattern))
              \/ text # <<>> /\ LikePattern(cfg, Tail(text), pattern)
    ELSE IF text = <<>> THEN FALSE
    ELSE /\ \/ Head(pattern) = "_"
            \/ CollateChar(cfg, Head(pattern)) = CollateChar(cfg, Head(text))
         /\ LikePattern(cfg, Tail(text), Tail(pattern))

\* like(column, searchTerm): never true of NULL.
Like(cfg, row, c, searchTerm) ==
    row[c] # NULL /\ LikePattern(cfg, row[c][1], searchTerm)

\* The results the statement may have: the first n of the rows ids in an
\* order that agrees with the sort key.  The database returns rows that tie
\* on it in any order, and under a LIMIT any of them.
RECURSIVE OrderBy1(_, _, _, _)
OrderBy1(tbl, ids, c, n) ==
    IF ids = {} \/ n = 0 THEN {<<>>}
    ELSE UNION { {<<tbl[i]>> \o rest :
                     rest \in OrderBy1(tbl, ids \ {i}, c, n - 1)} :
                 i \in {k \in ids :
                          \A j \in ids : ~ DescBefore(tbl[j], tbl[k], c)} }

\* A faulty limit, which returns every row.
FirstN_NoLimit(count, n) == count

\* .limit(n) on a statement that selects count rows: the number of rows
\* returned.
FirstN(count, n) == IF count > n THEN n ELSE count

\* const results = {photos: [], essays: [], papers: []}
NoResults == [photos |-> <<>>, essays |-> <<>>, papers |-> <<>>]

\* The SELECT of one bucket: `%${query}%` against the bucket's searched
\* columns, published rows only for essays and papers, newest first,
\* at most 20.  The lists of rows it may return.
SearchBucket(cfg, d, bucket, query) ==
    LET searchTerm == <<"%">> \o query \o <<"%">>
        photoIds == {i \in DOMAIN d.photos :
                        \/ Like(cfg, d.photos[i], "title", searchTerm)
                        \/ Like(cfg, d.photos[i], "description", searchTerm)
                        \/ Like(cfg, d.photos[i], "location", searchTerm)
                        \/ Like(cfg, d.photos[i], "tags", searchTerm)}
        essayIds == {i \in DOMAIN d.essays :
                        /\ Eq(d.essays[i], "published", TRUE)
                        /\ \/ Like(cfg, d.essays[i], "title", searchTerm)
                           \/ Like(cfg, d.essays[i], "subtitle", searchTerm)
                           \/ Like(cfg, d.essays[i], "excerpt", searchTerm)
                           \/ Like(cfg, d.essays[i], "tags", searchTerm)}
        paperIds == {i \in DOMAIN d.papers :
                        /\ Eq(d.papers[i], "published", TRUE)
                        /\ \/ Like(cfg, d.papers[i], "title", searchTerm)
                           \/ Like(cfg, d.papers[i], "abstract", searchTerm)
                           \/ Like(cfg, d.papers[i], "authors", searchTerm)
                           \/ Like(cfg, d.papers[i], "tags", searchTerm)}
    IN  CASE bucket = "photos" ->
                OrderBy1(d.photos, photoIds, "createdAt",
                         FirstN(Cardinality(photoIds), SearchLimit))
          [] bucket = "essays" ->
                OrderBy1(d.essays, essayIds, "publishedAt",
                         FirstN(Cardinality(essayIds), SearchLimit))
          [] bucket = "papers" ->
                OrderBy1(d.papers, paperIds, "year",
                         FirstN(Cardinality(paperIds), SearchLimit))

\* if (!type || type === bucket), in the order of the code: !type is true
\* of undefined, of null and of the empty string.
Buckets(type) ==
    SelectSeq(<<"photos", "essays", "papers">>,
              LAMBDA b : \/ type = Undefined \/ type = NULL \/ type = Some("")
                         \/ type = Some(b))

\* searchContent threw: a SELECT it awaited rejected.
SearchThrew == [results |-> None, todo |-> <<>>]

\* A faulty searchContent, which searches all three tables whatever the type.
searchContent_IgnoresType(cfg, d, query, type, acc) ==
    LET s == IF acc = None
             THEN [results |-> NoResults, todo |-> <<"photos", "essays", "papers">>]
             ELSE acc
    IN  IF ~ getDb(cfg) \/ s.todo = <<>>
        THEN {[results |-> s.results, todo |-> <<>>]}
        ELSE IF ~ Answers(cfg) THEN {SearchThrew}
        ELSE {[ results |-> [s.results EXCEPT ![Head(s.todo)] = rows],
                todo |-> Tail(s.todo) ] :
                 rows \in SearchBucket(cfg, d, Head(s.todo), query)}

\* searchContent(query, type), one awaited SELECT further: acc is None when
\* it is called and else [results, todo], the buckets filled and the
\* buckets still to query; it returns results when todo is empty.  Without
\* a database it returns the empty buckets at once; it has no try/catch, so
\* it throws when a SELECT rejects.  The states it may be in after the
\* SELECT.
searchContent(cfg, d, query, type, acc) ==
    LET s == IF acc = None
             THEN [results |-> NoResults, todo |-> Buckets(type)]
             ELSE acc
    IN  IF ~ getDb(cfg) \/ s.todo = <<>>
        THEN {[results |-> s.results, todo |-> <<>>]}
        ELSE IF ~ Answers(cfg) THEN {SearchThrew}
        ELSE {[ results |-> [s.results EXCEPT ![Head(s.todo)] = rows],
                todo |-> Tail(s.todo) ] :
                 rows \in SearchBucket(cfg, d, Head(s.todo), query)}

SearchQuery(req, input) ==
    \/ Context("search.query", "public", req, input)
    \/ \E p \in InFlight("search.query", req, input, "handler") :
          \E s \in searchContent(config, db, input.q[1], Opt(input, "type"),
                                 p.acc) :
              /\ IF s = SearchThrew
                 THEN Finish(p, p.user, "Error", None, None)
                 ELSE IF s.todo = <<>>
                 THEN Finish(p, p.user, "ok", s.results, None)
                 ELSE Await(p, [p EXCEPT !.acc = s])
              /\ UNCHANGED <<now, config, db, autoInc, objects, s3Client,
                             presigned, issued>>

----------------------------------------------------------------------------
(* Upload: server/routers.ts upload.*, and the storage functions called    *)
(* directly.                                                               *)

\* upload.image / upload.pdf.  A request body over the limit of the JSON
\* body parser is refused before the router sees it.  s3.send either
\* stores the object or rejects.
Upload(proc, req, input) ==
    IF Base64Length(input.base64Data[1].megabytes) > JsonLimit
    THEN /\ Idle
         /\ last' = Call(proc, req, None, input, "PayloadTooLarge", None)
         /\ UNCHANGED <<now, config, db, autoInc, objects, s3Client, presigned,
                        pending, issued>>
    ELSE \/ Context(proc, "admin", req, input)
         \/ \E p \in InFlight(proc, req, input, "send") : \E sent \in BOOLEAN :
               LET r == storagePut(config, s3Client, objects, p.acc.key,
                                   input.base64Data[1], p.acc.contentType, sent)
               IN  /\ objects' = r.objects
                   /\ s3Client' = r.client
                   /\ Finish(p, p.user, r.result,
                             IF r.result = "ok"
                             THEN [url |-> r.value.url, key |-> p.acc.key]
                             ELSE None, None)
                   /\ UNCHANGED <<now, config, db, autoInc, presigned, issued>>

UploadImage(req, input) == Upload("upload.image", req, input)

UploadPdf(req, input) == Upload("upload.pdf", req, input)

\* A storage function called directly, as server code may, came to r.
StorageResult(proc, input, r) ==
    /\ objects' = r.objects
    /\ s3Client' = r.client
    /\ last' = Reply(proc, None, input, r.result, r.value)

\* A storage function that sends a command is called: getS3Client(), which
\* throws or returns the client, then the command and s3.send(command),
\* which the function awaits.
StorageCall(proc, input, data) ==
    LET p  == NewCall(proc, NoRequest, input, "send")
        s3 == getS3Client(config, s3Client)
    IN  /\ s3Client' = s3.client
        /\ IF s3.result # "ok"
           THEN Finish(p, None, "Error", None, None)
           ELSE Await(p, [p EXCEPT !.acc = [data |-> data]])
        /\ UNCHANGED <<now, config, db, autoInc, objects, presigned, issued>>

\* s3.send(command) of the call p resolves or rejects, on the bucket as it
\* is then; the function came to r.
StorageSent(p, r) ==
    /\ objects' = r.objects
    /\ s3Client' = r.client
    /\ Finish(p, None, r.result, r.value, None)
    /\ UNCHANGED <<now, config, db, autoInc, presigned, issued>>

\* storagePut(key, data, contentType) is called, up to s3.send.
StoragePut(key, data, contentType) ==
    StorageCall("storagePut", [key |-> key, contentType |-> contentType], data)

\* The PutObject of a storagePut in flight is answered.
StoragePutSend ==
    \E p \in {q \in pending : q.proc = "storagePut"} : \E sent \in BOOLEAN :
        StorageSent(p, storagePut(config, s3Client, objects, p.input.key,
                                  p.acc.data, p.input.contentType, sent))

\* storageDelete(key) is called, up to s3.send.
StorageDelete(key) == StorageCall("storageDelete", [key |-> key], None)

\* The DeleteObject of a storageDelete in flight is answered.
StorageDeleteSend ==
    \E p \in {q \in pending : q.proc = "storageDelete"} : \E sent \in BOOLEAN :
        StorageSent(p, storageDelete(config, s3Client, objects, p.input.key,
                                     sent))

StorageGet(key) ==
    /\ StorageResult("storageGet", [key |-> key],
           storageGet(config, s3Client, objects, key, DownloadExpiry, now))
    /\ UNCHANGED <<now, config, db, autoInc, presigned, pending, issued>>

GetPresignedUploadUrl(key, contentType) ==
    LET r == getPresignedUploadUrl(config, s3Client, objects, key, contentType,
                                   UploadExpiry, now)
    IN  /\ StorageResult("getPresignedUploadUrl",
                         [key |-> key, contentType |-> contentType], r)
        /\ presigned' = IF r.result = "ok"
                        THEN presigned \cup {r.value.uploadUrl} ELSE presigned
        /\ UNCHANGED <<now, config, db, autoInc, pending, issued>>

\* A client sends a file to a presigned upload URL it was given: the bucket
\* stores it while the URL has not expired.
PresignedPut(url, data) ==
    /\ url \in presigned
    /\ Epoch(now) <= url.expires
    /\ objects' = PutObject(objects, url.key,
                            [contentType |-> url.contentType, body |-> data])
    /\ last' = Reply("PUT uploadUrl", None, [key |-> url.key], "ok", None)
    /\ UNCHANGED <<now, config, db, autoInc, s3Client, presigned, pending, issued>>

----------------------------------------------------------------------------
(* States the specifications start from *)

\* The users table after the administrator and a visitor have logged in
\* with loginWithEmail, at time 0, under configuration cfg.
TwoUsers(cfg) ==
    createUser(createUser(EmptyTable, 1, 0, 0, NewUser(cfg, "admin@site.io")),
               2, 0, 0, NewUser(cfg, "user@site.io"))

\* A server under configuration cfg on whose database those two users are
\* stored: no content, an empty bucket, no call in flight.
Seeded(cfg) ==
    /\ buildConfig(cfg) = "ok"
    /\ now = 0
    /\ config = cfg
    /\ db = [EmptyDb EXCEPT !.users = TwoUsers(cfg)]
    /\ autoInc = [FirstIds EXCEPT !.users = 3]
    /\ objects = EmptyBucket
    /\ s3Client = None
    /\ presigned = {}
    /\ pending = {}
    /\ issued = {}
    /\ last = NoCall

----------------------------------------------------------------------------
(* The session specification: token creation and verification as time     *)
(* passes.                                                                 *)

\* Token lifetimes (ms) used with createSessionToken's expiresInMs option.
Lifetimes == {700, 1500}

\* The deployments of the session specification: either JWT secret, and
\* SESSION_MAX_AGE_DAYS 1 or 0.
SessionConfigs ==
    {[BaseConfig EXCEPT !.jwtSecret = k, !.sessionMaxAge = SessionMaxAge(d)] :
        k \in Secrets, d \in {0, 1}}

InitSession == \E cfg \in SessionConfigs : Seeded(cfg)

\* Clients hold at most MaxTokens tokens.
MayIssue == Cardinality(issued) < MaxTokens

NextSession ==
    \/ now + TickMs <= MaxTicks * TickMs /\ Tick(TickMs)
    \/ MayIssue /\ \E id \in DOMAIN db.users,
                      ttl \in Lifetimes \cup {config.sessionMaxAge} :
                      CreateSessionToken(id, ttl)
    \/ MayIssue /\ \E k \in Secrets, id \in DOMAIN db.users, r \in Roles,
                      ttl \in Lifetimes : ForeignSessionToken(k, id, r, ttl)
    \/ \E t \in Tokens : VerifySessionToken(t)

SpecSession == InitSession /\ [][NextSession]_vars

----------------------------------------------------------------------------
(* The gate specification: every procedure of the router, called by every  *)
(* kind of caller, one call at a time, within one clock second.            *)

\* The deployments of the gate specification: the base deployment, one
\* without a storage bucket, one with SESSION_MAX_AGE_DAYS = 0, where every
\* session is born expired, and one whose build rejects a negative LIMIT.
GateConfigs ==
    { BaseConfig,
      [BaseConfig EXCEPT !.bucket = ""],
      [BaseConfig EXCEPT !.sessionMaxAge = SessionMaxAge(0)],
      [BaseConfig EXCEPT !.negativeLimit = "rejected"] }

InitGate == \E cfg \in GateConfigs : Seeded(cfg)

\* Rows inserted so far, over the content tables, and objects uploaded.
Inserted ==
    (autoInc.photos - 1) + (autoInc.essays - 1) + (autoInc.papers - 1)
        + (autoInc.backgrounds - 1) + Cardinality(DOMAIN objects)

MayInsertGate == Inserted < MaxInserts

GateId         == [id |-> Some(1)]
GatePatch      == [id |-> Some(1), title |-> Some(<<"b">>)]
GateEmptyPatch == [id |-> Some(1)]
GatePatches    == {GatePatch, GateEmptyPatch}
GateList       == {EmptyInput, [published |-> Some(FALSE)], [limit |-> Some(-1)]}
GatePhoto      == [title |-> Some(<<"a">>), imageUrl |-> Some("u")]
GateEssay      == [title |-> Some(<<"a">>), content |-> Some("text")]
GatePaper      == [title |-> Some(<<"a">>), authors |-> Some(<<"b">>)]
GateBackground == [imageUrl |-> Some("u")]
GateSearch     == [q |-> Some(<<"a">>)]
GateImage      == [filename |-> Some("f.png"), contentType |-> Some("image/png"),
                   base64Data |-> Some(Payload(1))]
GatePdf        == [filename |-> Some("f.pdf"), base64Data |-> Some(Payload(1))]

\* The callers of the gate specification: no session, or a session cookie.
GateRequests == {NoRequest} \cup {CookieRequest(t) : t \in Tokens}

NextGate ==
    \/ MayIssue /\ \E id \in DOMAIN db.users :
                      CreateSessionToken(id, config.sessionMaxAge)
    \/ MayIssue /\ \E k \in Secrets, id \in DOMAIN db.users :
                      /\ db.users[id].role = "admin"
                      /\ ForeignSessionToken(k, id, "admin", MsPerDay)
    \/ \E req \in GateRequests : AuthMe(req)
    \/ \E req \in GateRequests : AuthLogout(req)
    \/ \E req \in GateRequests : PhotosList(req, EmptyInput)
    \/ \E req \in GateRequests : PhotosGet(req, GateId)
    \/ MayInsertGate /\ \E req \in GateRequests : PhotosCreate(req, GatePhoto)
    \/ \E req \in GateRequests, input \in GatePatches : PhotosUpdate(req, input)
    \/ \E req \in GateRequests : PhotosDelete(req, GateId)
    \/ \E req \in GateRequests, input \in GateList : EssaysList(req, input)
    \/ \E req \in GateRequests, input \in GateList : EssaysListAll(req, input)
    \/ \E req \in GateRequests : EssaysGet(req, GateId)
    \/ MayInsertGate /\ \E req \in GateRequests : EssaysCreate(req, GateEssay)
    \/ \E req \in GateRequests, input \in GatePatches : EssaysUpdate(req, input)
    \/ \E req \in GateRequests : EssaysDelete(req, GateId)
    \/ \E req \in GateRequests, input \in GateList : PapersList(req, input)
    \/ \E req \in GateRequests, input \in GateList : PapersListAll(req, input)
    \/ \E req \in GateRequests : PapersGet(req, GateId)
    \/ MayInsertGate /\ \E req \in GateRequests : PapersCreate(req, GatePaper)
    \/ \E req \in GateRequests, input \in GatePatches : PapersUpdate(req, input)
    \/ \E req \in GateRequests : PapersDelete(req, GateId)
    \/ \E req \in GateRequests : BackgroundsList(req, EmptyInput)
    \/ \E req \in GateRequests : BackgroundsListAll(req, EmptyInput)
    \/ \E req \in GateRequests : BackgroundsGet(req, GateId)
    \/ MayInsertGate /\ \E req \in GateRequests : BackgroundsCreate(req, GateBackground)
    \/ \E req \in GateRequests, input \in GatePatches : BackgroundsUpdate(req, input)
    \/ \E req \in GateRequests : BackgroundsDelete(req, GateId)
    \/ \E req \in GateRequests : SearchQuery(req, GateSearch)
    \/ MayInsertGate /\ \E req \in GateRequests : UploadImage(req, GateImage)
    \/ MayInsertGate /\ \E req \in GateRequests : UploadPdf(req, GatePdf)

SpecGate == InitGate /\ [][NextGate]_vars

----------------------------------------------------------------------------
(* C1, C2: the authorization gate *)

AdminProcedures ==
    { "photos.create", "photos.update", "photos.delete",
      "essays.listAll", "essays.create", "essays.update", "essays.delete",
      "papers.listAll", "papers.create", "papers.update", "papers.delete",
      "backgrounds.listAll", "backgrounds.create", "backgrounds.update",
      "backgrounds.delete", "upload.image", "upload.pdf" }

ContentMutations ==
    { "photos.create", "photos.update", "photos.delete",
      "essays.create", "essays.update", "essays.delete",
      "papers.create", "papers.update", "papers.delete",
      "backgrounds.create", "backgrounds.update", "backgrounds.delete" }

UpdateProcedures ==
    {"photos.update", "essays.update", "papers.update", "backgrounds.update"}

UploadProcedures == {"upload.image", "upload.pdf"}

\* The request carries a token signed with this server's secret, not
\* expired at time t, of a user that is stored.
HasSessionAt(req, t) ==
    LET token == getSessionToken(req)
    IN  /\ Truthy(token)
        /\ token.sig = HS256(config.jwtSecret, Claims(token))
        /\ token.exp > Epoch(t)
        /\ token.userId \in DOMAIN db.users

HasSession(req) == HasSessionAt(req, now)

\* The call that returned last carried a valid session when it arrived.
HadSession == HasSessionAt(last.req, last.at)

SessionRole(req) == db.users[getSessionToken(req).userId].role

AdminSession(req) == HasSession(req) /\ SessionRole(req) = "admin"

HadAdminSession == HadSession /\ SessionRole(last.req) = "admin"

\* C1: an admin-only procedure throws Unauthorized without a valid session,
\* throws Forbidden with a valid session of a user who is not admin, and
\* succeeds with a valid admin session.
C1_AdminCallSucceeds ==
    last.proc \in AdminProcedures =>
        /\ ~ HadSession => last.result = "Unauthorized"
        /\ (HadSession /\ SessionRole(last.req) # "admin")
               => last.result = "Forbidden"
        /\ HadAdminSession => last.result = "ok"

\* The part of C1 that requireAdmin decides: Unauthorized without a valid
\* session, Forbidden for a user who is not admin, and neither of the two
\* for an admin, whose call reaches its handler with ctx.user set.
GateDecides ==
    last.proc \in AdminProcedures =>
        /\ ~ HadSession => last.result = "Unauthorized"
        /\ (HadSession /\ SessionRole(last.req) # "admin")
               => last.result = "Forbidden"
        /\ HadAdminSession =>
               /\ last.result \in {"ok", "Error"}
               /\ last.user # None /\ last.user.role = "admin"

\* The admin calls that are not uploads (an upload may fail in the storage
\* layer): each succeeds.
AdminContentCallSucceeds ==
    (last.proc \in AdminProcedures \ UploadProcedures /\ HadAdminSession)
        => last.result = "ok"

\* An admin call that failed in its handler was an upload, an update of a
\* photo, essay or paper whose patch defines no column, or a listAll with a
\* negative limit.
AdminCallFailures ==
    (last.proc \in AdminProcedures /\ HadAdminSession /\ last.result # "ok") =>
        \/ last.proc \in UploadProcedures
        \/ /\ last.proc \in {"photos.update", "essays.update", "papers.update"}
           /\ Defined(Rest(last.input)) = {}
        \/ /\ last.proc \in {"essays.listAll", "papers.listAll"}
           /\ config.negativeLimit = "rejected"
           /\ Opt(last.input, "limit") = Some(-1)

Content == <<db.photos, db.essays, db.papers, db.backgrounds>>

\* C2: whenever a step changes a row of photos, essays, papers or
\* backgrounds, the step is the statement of a create, update or delete
\* call that succeeded and was made with a valid admin session; so a call
\* the gate rejects, every step of a call before its handler, and every
\* public procedure, leaves the content tables unchanged.
C2_OnlyAdminWrites ==
    [][ Content' # Content =>
            /\ last'.proc \in ContentMutations
            /\ last'.result = "ok"
            /\ HadAdminSession' ]_vars

\* A stored user who is not admin has just been refused a content mutation,
\* while the content tables hold a row.
C2_Witness ==
    /\ last.proc \in ContentMutations
    /\ HadSession
    /\ last.result = "Forbidden"
    /\ Content # <<EmptyTable, EmptyTable, EmptyTable, EmptyTable>>

----------------------------------------------------------------------------
(* The content specification: the administrator is signed in; content is  *)
(* created by the administrator, and listed, fetched and searched by a    *)
(* visitor, one call at a time, while the clock advances by whole seconds, *)
(* also between the statements of a call.                                  *)

\* The state after the server started with cfg and the administrator logged
\* in by email at time 0: the administrator's row, and the token of that
\* login.
SignedIn(cfg) ==
    LET users == createUser(EmptyTable, 1, 0, 0, NewUser(cfg, cfg.adminEmail))
    IN  /\ buildConfig(cfg) = "ok"
        /\ now = 0
        /\ config = cfg
        /\ db = [EmptyDb EXCEPT !.users = users]
        /\ autoInc = [FirstIds EXCEPT !.users = 2]
        /\ objects = EmptyBucket
        /\ s3Client = None
        /\ presigned = {}
        /\ pending = {}
        /\ issued = {Grant(SessionFor(cfg, 0, users[1]), 0, cfg.sessionMaxAge)}
        /\ last = NoCall

InitContent ==
    \E d \in NegativeLimits : SignedIn([BaseConfig EXCEPT !.negativeLimit = d])

MayInsert == Inserted < MaxRows
MayTick   == Epoch(now) < MaxSeconds

ContentIds    == {[id |-> Some(i)] : i \in 1 .. MaxRows}

NewPhotos ==
    { [title |-> Some(<<"a">>), imageUrl |-> Some("u")],
      [title |-> Some(<<"b">>), imageUrl |-> Some("v"),
       description |-> Some(<<"a", "b">>), category |-> Some("c"),
       featured |-> Some(TRUE), sortOrder |-> Some(1),
       publishedAt |-> Some(1500)] }

NewEssays ==
    { [title |-> Some(<<"a">>), content |-> Some("text")],
      [title |-> Some(<<"b">>), content |-> Some("text"),
       excerpt |-> Some(<<"a">>), published |-> Some(TRUE),
       publishedAt |-> Some(1000)] }

NewPapers ==
    { [title |-> Some(<<"a">>), authors |-> Some(<<"b">>)],
      [title |-> Some(<<"b">>), authors |-> Some(<<"a">>),
       year |-> Some(2020), citations |-> Some(5),
       published |-> Some(TRUE)] }

NewBackgrounds ==
    { [imageUrl |-> Some("u")],
      [imageUrl |-> Some("v"), active |-> Some(FALSE), sortOrder |-> Some(1)] }

PhotoPatches ==
    { [title |-> Some(<<>>)],
      [title |-> Undefined, featured |-> Some(TRUE)],
      EmptyInput }

EssayPatches ==
    { [published |-> Some(FALSE)],
      [published |-> Some(FALSE), publishedAt |-> Undefined],
      [published |-> Some(TRUE), publishedAt |-> Some(2400)],
      [title |-> Some(<<>>)] }

PaperPatches ==
    { [published |-> Some(TRUE)],
      [abstract |-> Some(<<>>), citations |-> Undefined] }

\* {id, ...patch}
WithId(patches) ==
    {Spread(patch, "id", i.id) : patch \in patches, i \in ContentIds}

ListFilters ==
    { EmptyInput,
      [published |-> Some(FALSE)],
      [published |-> Some(FALSE), featured |-> Some(FALSE),
       category |-> Some(""), limit |-> Some(1)],
      [published |-> Some(FALSE), limit |-> Some(-1)] }

Searches ==
    { [q |-> Some(<<"a">>)],
      [q |-> Some(<<"B">>), type |-> Some("essays")] }

\* The callers of the content specification: on the public procedures the
\* requests that carry no valid administrator session, on the admin-only
\* ones the administrator.
Visitors == {req \in Requests : ~ AdminSession(req)}

Admins == {CookieRequest(t) : t \in {u \in Tokens : u.role = "admin"}}

NextContent ==
    \/ MayTick /\ Tick(MsPerSecond)
    \/ \E req \in Visitors, input \in ContentIds : PhotosGet(req, input)
    \/ MayInsert /\ \E req \in Admins, input \in NewPhotos :
                        PhotosCreate(req, input)
    \/ \E req \in Visitors, input \in ListFilters : EssaysList(req, input)
    \/ \E req \in Visitors, input \in ContentIds : EssaysGet(req, input)
    \/ MayInsert /\ \E req \in Admins, input \in NewEssays :
                        EssaysCreate(req, input)
    \/ \E req \in Visitors, input \in ListFilters : PapersList(req, input)
    \/ \E req \in Visitors, input \in ContentIds : PapersGet(req, input)
    \/ MayInsert /\ \E req \in Admins, input \in NewPapers :
                        PapersCreate(req, input)
    \/ \E req \in Visitors, input \in ContentIds : BackgroundsGet(req, input)
    \/ MayInsert /\ \E req \in Admins, input \in NewBackgrounds :
                        BackgroundsCreate(req, input)
    \/ \E req \in Visitors, input \in Searches : SearchQuery(req, input)

SpecContent == InitContent /\ [][NextContent]_vars

----------------------------------------------------------------------------
(* C3, C4: what the public procedures return *)

\* The rows of a sequence.
Range(rows) == {rows[i] : i \in DOMAIN rows}

\* The essays and papers the last call returned.
Returned ==
    CASE last.result # "ok" -> {}
      [] last.proc \in {"essays.list", "papers.list"} -> Range(last.value)
      [] last.proc \in {"essays.get", "papers.get"} ->
            IF last.value = None THEN {} ELSE {last.value}
      [] last.proc = "search.query" ->
            Range(last.value.essays) \cup Range(last.value.papers)
      [] OTHER -> {}

\* C3: whatever filter the caller supplies (none, published: false, any
\* featured/category/limit combination), essays.list and papers.list return
\* only items whose published flag is true.
C3_PublicListsOnlyPublished ==
    (last.proc \in {"essays.list", "papers.list"} /\ last.result = "ok") =>
        \A row \in Returned : row.published = Some(TRUE)

\* essays.list was asked for published: false while a draft and a published
\* essay are stored, and returned an essay.
C3_Witness ==
    /\ last.proc = "essays.list"
    /\ Opt(last.input, "published") = Some(FALSE)
    /\ last.result = "ok"
    /\ last.value # <<>>
    /\ \E i \in DOMAIN db.essays : db.essays[i].published = Some(FALSE)

\* C4: no procedure that a caller without a valid admin session can invoke
\* with success (essays.list, essays.get, papers.list, papers.get,
\* search.query) returns an essay or paper whose published flag is false.
C4_DraftsOnlyForAdmin ==
    ( /\ last.proc \in {"essays.list", "essays.get", "papers.list",
                        "papers.get", "search.query"}
      /\ ~ HadAdminSession
      /\ last.result = "ok" ) =>
        \A row \in Returned : row.published # Some(FALSE)

----------------------------------------------------------------------------
(* C5 - C8: create, update and delete *)

\* The table a content procedure works on.
TableOf(proc) ==
    CASE proc \in {"photos.create", "photos.update", "photos.delete"} -> "photos"
      [] proc \in {"essays.create", "essays.update", "essays.delete"} -> "essays"
      [] proc \in {"papers.create", "papers.update", "papers.delete"} -> "papers"
      [] proc \in {"backgrounds.create", "backgrounds.update",
                   "backgrounds.delete"} -> "backgrounds"

\* getById of the procedure's table, on the tables d.
GetById(proc, d, id) ==
    CASE TableOf(proc) = "photos" -> getPhotoById(config, d.photos, id)
      [] TableOf(proc) = "essays" -> getEssayById(config, d.essays, id)
      [] TableOf(proc) = "papers" -> getPaperById(config, d.papers, id)
      [] TableOf(proc) = "backgrounds" ->
            getBackgroundById(config, d.backgrounds, id)

CreateProcedures ==
    {"photos.create", "essays.create", "papers.create", "backgrounds.create"}

\* The defaults the specification states for omitted fields.
StatedDefault(c) ==
    CASE c \in {"sortOrder", "citations"} -> Some(0)
      [] c \in {"featured", "published"}  -> Some(FALSE)
      [] c = "active"                     -> Some(TRUE)
      [] OTHER                            -> NULL

\* The stored value of column c is exactly the given one; a timestamp is
\* stored in seconds and given in milliseconds.
Exactly(c, stored, given) ==
    IF c \in TimestampColumns /\ given # NULL
    THEN stored # NULL /\ stored[1] * MsPerSecond = given[1]
    ELSE stored = given

\* The same, a timestamp being the given instant to the nearest second.
ToTheSecond(c, stored, given) ==
    IF c \in TimestampColumns /\ given # NULL
    THEN /\ stored # NULL
         /\ 2 * (stored[1] * MsPerSecond - given[1]) <= MsPerSecond
         /\ 2 * (given[1] - stored[1] * MsPerSecond) < MsPerSecond
    ELSE stored = given

\* The record that getById returns after the last create call.
Created == GetById(last.proc, db, last.value.id)

\* C5 (as stated): after a create call that succeeds, getById on the
\* returned id returns a record whose fields equal the input, omitted
\* fields having their default (sortOrder = 0, citations = 0, featured =
\* false, published = false, active = true).
C5_CreatedEqualsInput ==
    (last.proc \in CreateProcedures /\ last.result = "ok") =>
        /\ Created # None
        /\ Created.id = last.value.id
        /\ \A c \in DOMAIN Created \ SystemColumns :
              IF c \in Defined(last.input)
              THEN Exactly(c, Created[c], last.input[c])
              ELSE Created[c] = StatedDefault(c)

\* C5 (amended): the same, except that a timestamp field (publishedAt) of
\* the record is the input instant rounded to the nearest whole second.
C5_CreatedEqualsInputToTheSecond ==
    (last.proc \in CreateProcedures /\ last.result = "ok") =>
        /\ Created # None
        /\ Created.id = last.value.id
        /\ \A c \in DOMAIN Created \ SystemColumns :
              IF c \in Defined(last.input)
              THEN ToTheSecond(c, Created[c], last.input[c])
              ELSE Created[c] = StatedDefault(c)

\* A photo was just created from a title and an image URL alone, and is
\* stored with sortOrder 0 and featured false.
C5_Witness ==
    /\ last.proc = "photos.create"
    /\ last.result = "ok"
    /\ DOMAIN last.input = {"title", "imageUrl"}
    /\ Created # None
    /\ Created.sortOrder = Some(0)
    /\ Created.featured = Some(FALSE)
    /\ Created.title = last.input.title

----------------------------------------------------------------------------
(* The edit specification: the administrator updates and deletes the rows  *)
(* of one content table, which earlier create calls stored, one call at a  *)
(* time, while the clock advances by whole seconds.                        *)

EditTables == {"photos", "essays", "papers"}

NewRows(tn) ==
    CASE tn = "photos" -> NewPhotos
      [] tn = "essays" -> NewEssays
      [] tn = "papers" -> NewPapers

\* Table tn after create calls with the inputs `first` and `second`, executed
\* at time 0; `second` is None when there was one call only.
Stored(cfg, tn, first, second) ==
    LET create(tbl, id, input) ==
            CASE tn = "photos" -> createPhoto(cfg, tbl, id, 0, input).table
              [] tn = "essays" -> createEssay(cfg, tbl, id, 0, input).table
              [] tn = "papers" -> createPaper(cfg, tbl, id, 0, input).table
        one == create(EmptyTable, 1, first)
    IN  IF second = None THEN one ELSE create(one, 2, second)

InitEdits ==
    \E tn \in EditTables :
      \E first \in NewRows(tn), second \in NewRows(tn) \cup {None} :
        LET users == createUser(EmptyTable, 1, 0, 0,
                                NewUser(BaseConfig, BaseConfig.adminEmail))
            rows  == Stored(BaseConfig, tn, first, second)
        IN  /\ now = 0
            /\ config = BaseConfig
            /\ db = [EmptyDb EXCEPT !.users = users, ![tn] = rows]
            /\ autoInc = [FirstIds EXCEPT !.users = 2,
                                          ![tn] = Cardinality(DOMAIN rows) + 1]
            /\ objects = EmptyBucket
            /\ s3Client = None
            /\ presigned = {}
            /\ pending = {}
            /\ issued = {Grant(SessionFor(BaseConfig, 0, users[1]), 0,
                               BaseConfig.sessionMaxAge)}
            /\ last = NoCall

NextEdits ==
    \/ MayTick /\ Tick(MsPerSecond)
    \/ \E req \in Admins, input \in WithId(PhotoPatches) :
          PhotosUpdate(req, input)
    \/ \E req \in Admins, input \in ContentIds : PhotosDelete(req, input)
    \/ \E req \in Admins, input \in WithId(EssayPatches) :
          EssaysUpdate(req, input)
    \/ \E req \in Admins, input \in ContentIds : EssaysDelete(req, input)
    \/ \E req \in Admins, input \in WithId(PaperPatches) :
          PapersUpdate(req, input)
    \/ \E req \in Admins, input \in ContentIds : PapersDelete(req, input)

SpecEdits == InitEdits /\ [][NextEdits]_vars

ContentUpdates == {"photos.update", "essays.update", "papers.update"}
ContentDeletes == {"photos.delete", "essays.delete", "papers.delete"}

\* The table, before and after the step, of the call the step ends with.
Old == db[TableOf(last'.proc)]
New == db'[TableOf(last'.proc)]

\* Every row but row id is as it was, and no row appeared.
OthersUnchanged(id) ==
    /\ DOMAIN New \subseteq DOMAIN Old
    /\ \A i \in DOMAIN Old \ {id} : i \in DOMAIN New /\ New[i] = Old[i]

\* C6 (as stated): after update(id, partial) every field of row id that is
\* absent from partial, or given as undefined, has its previous value, every
\* field present has exactly the new value (the empty string included), the
\* id is unchanged and every other row is unchanged.
C6_UpdateFrame ==
    [][ (last'.proc \in ContentUpdates /\ last'.result = "ok") =>
          LET id    == last'.input.id[1]
              patch == Rest(last'.input)
          IN  /\ OthersUnchanged(id)
              /\ id \in DOMAIN Old =>
                    /\ id \in DOMAIN New
                    /\ New[id].id = id
                    /\ \A c \in DOMAIN Old[id] \ {"id"} :
                          IF c \in Defined(patch)
                          THEN Exactly(c, New[id][c], patch[c])
                          ELSE New[id][c] = Old[id][c] ]_vars

\* C6 (amended): the same, with two exceptions: updatedAt, which the
\* database sets to the time of the update whenever the update changes the
\* row, and a timestamp field present in partial, which is stored rounded to
\* the nearest whole second.
C6_UpdateFrameButTimestamps ==
    [][ (last'.proc \in ContentUpdates /\ last'.result = "ok") =>
          LET id    == last'.input.id[1]
              patch == Rest(last'.input)
          IN  /\ OthersUnchanged(id)
              /\ id \in DOMAIN Old =>
                    /\ id \in DOMAIN New
                    /\ New[id].id = id
                    /\ \A c \in DOMAIN Old[id] \ {"id", "updatedAt"} :
                          IF c \in Defined(patch)
                          THEN ToTheSecond(c, New[id][c], patch[c])
                          ELSE New[id][c] = Old[id][c]
                    /\ New[id].updatedAt =
                          IF \A c \in DOMAIN Old[id] \ {"updatedAt"} :
                                New[id][c] = Old[id][c]
                          THEN Old[id].updatedAt
                          ELSE Some(Epoch(now)) ]_vars

\* A photo's title was just set to the empty string, a second after the
\* photo was created; its other fields are as created and another photo is
\* stored.
C6_Witness ==
    /\ last.proc = "photos.update"
    /\ last.result = "ok"
    /\ Opt(last.input, "title") = Some(<<>>)
    /\ last.input.id[1] \in DOMAIN db.photos
    /\ LET row == db.photos[last.input.id[1]]
       IN  /\ row.title = Some(<<>>)
           /\ row.imageUrl # NULL
           /\ row.updatedAt[1] > row.createdAt[1]
    /\ Cardinality(DOMAIN db.photos) = 2

\* C7: after delete(id), getById(id) returns absent and every other row is
\* unchanged; delete returns success whether or not row id exists (deleted
\* before, or never created).
C7_DeleteFrame ==
    [][ (last'.proc \in ContentDeletes /\ HadAdminSession') =>
          LET id == last'.input.id[1]
          IN  /\ last'.result = "ok"
              /\ GetById(last'.proc, db', id) = None
              /\ OthersUnchanged(id) ]_vars

\* delete was just called with success on a photo id that was never
\* assigned, and the photo that is stored is still there.
C7_Witness ==
    /\ last.proc = "photos.delete"
    /\ last.result = "ok"
    /\ last.input.id[1] >= autoInc.photos
    /\ db.photos # EmptyTable

\* C8: an essays.update that omits publishedAt leaves the essay's
\* publishedAt as it was, and sets published to the value it gives; so
\* essays.update({id, published: false}) on a published essay with a
\* non-null publishedAt yields published = false and the same publishedAt.
C8_PublishedAtKept ==
    [][ ( /\ last'.proc = "essays.update"
          /\ last'.result = "ok"
          /\ last'.input.id[1] \in DOMAIN db.essays
          /\ "publishedAt" \notin Defined(last'.input) ) =>
          LET id == last'.input.id[1]
          IN  /\ id \in DOMAIN db'.essays
              /\ db'.essays[id].publishedAt = db.essays[id].publishedAt
              /\ "published" \in Defined(last'.input) =>
                    db'.essays[id].published = last'.input.published ]_vars

\* An essay was just unpublished by essays.update({id, published: false})
\* and still has its publishedAt.
C8_Witness ==
    /\ last.proc = "essays.update"
    /\ last.result = "ok"
    /\ Opt(last.input, "published") = Some(FALSE)
    /\ "publishedAt" \notin Defined(last.input)
    /\ last.input.id[1] \in DOMAIN db.essays
    /\ db.essays[last.input.id[1]].published = Some(FALSE)
    /\ db.essays[last.input.id[1]].publishedAt # NULL

----------------------------------------------------------------------------
(* The authentication specification: sessions of stored and of missing     *)
(* users, and requests that authenticate, one at a time, in half-second    *)
(* ticks that also fall between the statements of a call.                  *)

InitAuth == Seeded(BaseConfig)

NextAuth ==
    \/ now + TickMs <= MaxTicks * TickMs /\ Tick(TickMs)
    \/ MayIssue /\ \E id \in DOMAIN db.users : CreateSessionToken(id, MsPerSecond)
    \/ MayIssue /\ \E e \in Emails : CreateSessionTokenAhead(e, "user", MsPerDay)
    \/ MayIssue /\ \E k \in Secrets, id \in DOMAIN db.users :
                      ForeignSessionToken(k, id, "admin", MsPerDay)
    \/ \E req \in Requests : AuthenticateRequest(req)
    \/ \E req \in Requests : AuthMe(req)

SpecAuth == InitAuth /\ [][NextAuth]_vars

\* The step is the one in which a call of proc returns.
CallStep(proc) == last'.proc = proc /\ now' = now

----------------------------------------------------------------------------
(* C9, C10: session tokens *)

OwnToken(t) == t.sig.key = config.jwtSecret

Verifies(t) == verifySessionToken(config, now, t) # None

\* C9: a session token signed with a secret other than the one the service
\* is configured with never verifies, whatever its payload and expiry.
C9_ForeignSecretFails ==
    /\ \A g \in issued : ~ OwnToken(g.token) => ~ Verifies(g.token)
    /\ (last.proc = "verifySessionToken" /\ ~ OwnToken(last.input.token))
          => last.value = None

\* A token of another deployment, with admin claims and not yet expired, was
\* presented and rejected.
C9_Witness ==
    /\ last.proc = "verifySessionToken"
    /\ ~ OwnToken(last.input.token)
    /\ last.input.token.role = "admin"
    /\ last.input.token.exp > Epoch(now)
    /\ last.value = None

\* C10 as stated: an expired token fails, and a token created at time T with
\* lifetime t verifies at every time before T + t and at no time after it.
C10_ExpiryToTheMillisecond ==
    \A g \in issued : OwnToken(g.token) =>
        /\ g.token.exp < Epoch(now) => ~ Verifies(g.token)
        /\ now < g.issuedAt + g.expiresInMs => Verifies(g.token)
        /\ now > g.issuedAt + g.expiresInMs => ~ Verifies(g.token)

\* C10, amended: expiry is decided in whole seconds.  A token whose "exp" is
\* not after the current second fails; a token created at time T with
\* lifetime t verifies exactly while floor(now/1000) < floor((T+t)/1000):
\* never at or after T + t, always a full second or more before T + t.
C10_ExpiryInWholeSeconds ==
    \A g \in issued : OwnToken(g.token) =>
        /\ g.token.exp <= Epoch(now) => ~ Verifies(g.token)
        /\ Verifies(g.token)
              <=> Epoch(now) < Epoch(g.issuedAt + g.expiresInMs)
        /\ now >= g.issuedAt + g.expiresInMs => ~ Verifies(g.token)
        /\ now + MsPerSecond <= g.issuedAt + g.expiresInMs
              => Verifies(g.token)

\* A token of this service was presented after its lifetime and rejected,
\* while a token of this service that is still alive exists.
C10_Witness ==
    /\ last.proc = "verifySessionToken"
    /\ last.value = None
    /\ \E g \in issued :
          /\ g.token = last.input.token
          /\ OwnToken(g.token)
          /\ g.expiresInMs > 0
          /\ now > g.issuedAt + g.expiresInMs
    /\ \E g \in issued : OwnToken(g.token) /\ Verifies(g.token)

----------------------------------------------------------------------------
----------------------------------------------------------------------------
(* C11: authenticateRequest *)

\* The step is the one in which a call of authenticateRequest returns.
AuthenticateStep == CallStep("authenticateRequest")

\* The request of the call that returns in the step carried a valid session
\* when it arrived.
ArrivedWithSession == HasSessionAt(last'.req, last'.at)

\* Row id of the call's user is as before but for the columns in except,
\* and every other row of the users table is as before.
UsersKeptBut(id, except) ==
    /\ DOMAIN db'.users = DOMAIN db.users
    /\ \A i \in DOMAIN db.users \ {id} : db'.users[i] = db.users[i]
    /\ \A c \in (DOMAIN db.users[id]) \ except :
          db'.users[id][c] = db.users[id][c]

\* lastSignedIn of row id is the second nearest to an instant of the call,
\* between its arrival and its return.
SignedInNow(id) ==
    LET at == db'.users[id].lastSignedIn
    IN  /\ at # NULL
        /\ \E t \in last'.at .. now :
              at[1] * MsPerSecond - t \in (0 - TickMs) .. TickMs

\* C11 (as stated): authenticateRequest returns user U exactly when the
\* request's token verifies and a user with the token's userId is stored;
\* then U's lastSignedIn is updated and no other field of U and no other row
\* changes; otherwise it throws Unauthorized and the users table is unchanged.
C11_OnlyLastSignedIn ==
    [][AuthenticateStep =>
         LET req == last'.req
             id  == getSessionToken(req).userId
         IN  IF ArrivedWithSession
             THEN /\ last'.result = "ok"
                  /\ last'.value = db.users[id]
                  /\ UsersKeptBut(id, {"lastSignedIn"})
                  /\ SignedInNow(id)
             ELSE /\ last'.result = "Unauthorized"
                  /\ db'.users = db.users]_vars

\* C11: authenticateRequest returns user U exactly when the request's token
\* verifies and a user with the token's userId is stored; then U's
\* lastSignedIn is set to the time of the call, to the second, U's updatedAt
\* is kept or becomes the time of the call, and no other field of U and no
\* other row changes; otherwise it throws Unauthorized and the users table is
\* unchanged.
C11_OnlyLastSignedInAndUpdatedAt ==
    [][AuthenticateStep =>
         LET req == last'.req
             id  == getSessionToken(req).userId
         IN  IF ArrivedWithSession
             THEN /\ last'.result = "ok"
                  /\ last'.value = db.users[id]
                  /\ UsersKeptBut(id, {"lastSignedIn", "updatedAt"})
                  /\ SignedInNow(id)
                  /\ db'.users[id].updatedAt
                        \in {db.users[id].updatedAt, Some(Epoch(now))}
             ELSE /\ last'.result = "Unauthorized"
                  /\ db'.users = db.users]_vars

\* A request authenticated while another user is stored, and the user's
\* lastSignedIn moved.
C11_Witness ==
    /\ last.proc = "authenticateRequest"
    /\ last.result = "ok"
    /\ Cardinality(DOMAIN db.users) > 1
    /\ db.users[last.value.id].lastSignedIn # last.value.lastSignedIn

----------------------------------------------------------------------------
(* C16: auth.me *)

\* C16: auth.me never fails: it returns null when the request carries no
\* token, a token that fails verification or a token of a user that is not
\* stored, and the stored user record when the request carries a valid
\* session.
C16_MeNeverFails ==
    [][CallStep("auth.me") =>
         /\ last'.result = "ok"
         /\ IF ArrivedWithSession
            THEN last'.value = db.users[getSessionToken(last'.req).userId]
            ELSE last'.value = None]_vars

\* auth.me answered null to a request whose token, signed by this server
\* for a stored user, has expired.
C16_Witness ==
    /\ last.proc = "auth.me"
    /\ last.result = "ok"
    /\ last.value = None
    /\ last.req.cookie \in Tokens
    /\ OwnToken(last.req.cookie)
    /\ last.req.cookie.userId \in DOMAIN db.users
    /\ last.req.cookie.exp <= Epoch(last.at)

----------------------------------------------------------------------------
(* C12: token resolution *)

\* Requests of every shape, carrying the tokens that were given out.
InitHeaders == Seeded(BaseConfig)

NextHeaders ==
    \/ MayIssue /\ \E id \in DOMAIN db.users,
                      ttl \in {MsPerSecond, config.sessionMaxAge} :
                      CreateSessionToken(id, ttl)
    \/ \E req \in HeaderRequests : GetSessionToken(req)

SpecHeaders == InitHeaders /\ [][NextHeaders]_vars

\* C12: getSessionToken returns the session cookie's value whenever the
\* cookie is present and not empty, whatever the Authorization header holds;
\* otherwise the text after "Bearer " when the header starts with it;
\* otherwise nothing.
C12_CookieThenBearer ==
    last.proc = "getSessionToken" =>
        LET cookie == last.req.cookie
            header == last.req.authorization
        IN  IF cookie \notin {None, Blank} THEN last.value = cookie
            ELSE IF header # None /\ header.prefix = "Bearer "
                 THEN last.value = header.rest
            ELSE last.value = None

\* A request with one token in the cookie and another one after "Bearer ".
C12_Witness ==
    /\ last.proc = "getSessionToken"
    /\ last.req.cookie \in Tokens
    /\ last.req.authorization # None
    /\ last.req.authorization.prefix = "Bearer "
    /\ last.req.authorization.rest \in Tokens \ {last.req.cookie}
    /\ last.value = last.req.cookie

----------------------------------------------------------------------------
----------------------------------------------------------------------------
(* C13 - C15: logins *)

\* Deployments with and without ADMIN_EMAIL and ADMIN_PASSWORD, with a
\* database or with a DATABASE_URL that does not parse, over either
\* collation.
LoginConfigs ==
    { [BaseConfig EXCEPT !.adminEmail = e, !.adminPassword = p,
                         !.databaseUrl = d, !.collation = c] :
        e \in {"admin@site.io", ""}, p \in {"secret", ""},
        d \in {"mysql://db", MalformedUrl}, c \in Collations }

LoginEmails == Emails \cup {"Admin@site.io"}

\* Request bodies with email and password given, empty, null or absent.
LoginBodies ==
    [ email    : {Undefined, NULL, Some("")} \cup {Some(e) : e \in LoginEmails},
      password : {Undefined} \cup {Some(p) : p \in Passwords} ]

\* Users to upsert: without openId, with a new one or with a stored one;
\* with or without name, email and role, null included.
ExternalId == <<"ext", 0, 0>>

OpenIds == {Undefined, ExternalId} \cup {db.users[i].openId : i \in DOMAIN db.users}

UpsertInputs ==
    { [openId |-> o] : o \in OpenIds }
    \cup { [openId |-> o, name |-> NULL] : o \in OpenIds }
    \cup { [openId |-> o, email |-> Some("admin@site.io")] : o \in OpenIds }
    \cup { [openId |-> o, email |-> e, role |-> r] :
               o \in OpenIds,
               e \in {NULL, Some("admin@site.io")},
               r \in {NULL, Some("user")} }
    \cup { [openId |-> o, lastSignedIn |-> NULL] : o \in OpenIds }

\* The server has just started with configuration cfg on a database that
\* an earlier deployment, without ADMIN_EMAIL, left: there the owner of
\* admin@site.io logged in with loginWithEmail and was stored as a user.
StartAfterEarlier(cfg) ==
    /\ buildConfig(cfg) = "ok"
    /\ now = 0
    /\ config = cfg
    /\ db = [EmptyDb EXCEPT !.users =
                createUser(EmptyTable, 1, 0, 0,
                           NewUser([cfg EXCEPT !.adminEmail = ""],
                                   "admin@site.io"))]
    /\ autoInc = [FirstIds EXCEPT !.users = 2]
    /\ objects = EmptyBucket
    /\ s3Client = None
    /\ presigned = {}
    /\ pending = {}
    /\ issued = {}
    /\ last = NoCall

InitLogin == \E cfg \in LoginConfigs : Start(cfg) \/ StartAfterEarlier(cfg)

NextLogin ==
    \/ now + TickMs <= MaxTicks * TickMs /\ Tick(TickMs)
    \/ MayIssue /\ \E e \in LoginEmails : LoginWithEmail(e)
    \/ MayIssue /\ \E e \in LoginEmails, p \in Passwords : LoginWithPassword(e, p)
    \/ MayIssue /\ \E body \in LoginBodies : PostAuthLogin(NoRequest, body)
    \/ LoginLookup
    \/ LoginInsert
    \/ LoginReselect
    \/ LoginPromote

SpecLogin == InitLogin /\ [][NextLogin]_vars

\* The stored users whose email is e, as the database compares.
UsersOf(tbl, e) == {i \in DOMAIN tbl : EqText(config, tbl[i].email, e)}

\* The call that returns in the step has executed no INSERT and no UPDATE:
\* it returns on arrival, or from its lookup.
WroteNothing ==
    /\ db' = db
    /\ autoInc' = autoInc
    /\ \A p \in pending \ pending' : p.pc = "lookup"

\* A step that adds a user is the INSERT of a login whose email no stored
\* user has, and adds one user, with that email.
CreatedIfAbsent ==
    DOMAIN db'.users # DOMAIN db.users =>
        \E p \in pending :
            /\ p.pc = "insert"
            /\ UsersOf(db.users, p.acc.email) = {}
            /\ DOMAIN db'.users = DOMAIN db.users \cup {autoInc.users}
            /\ db'.users[autoInc.users].email = Some(p.acc.email)
            /\ \A i \in DOMAIN db.users : db'.users[i] = db.users[i]

\* C13: loginWithPassword throws Forbidden when no administrator password is
\* configured; otherwise it throws Unauthorized unless the email is the
\* configured administrator email (compared without case) and the password the
\* configured one; when it succeeds, a user with that email is stored, created
\* if there was none, and the returned token verifies to that user's id; when
\* it throws, no user is created or modified.
C13_PasswordLogin ==
    [][ /\ CreatedIfAbsent
        /\ CallStep("loginWithPassword") =>
             LET in == last'.input
                 ok == last'.result = "ok"
             IN  /\ config.adminPassword = "" => last'.result = "Forbidden"
                 /\ ( /\ config.adminPassword # ""
                      /\ \/ ToLowerCase(in.email) # ToLowerCase(config.adminEmail)
                         \/ in.password # config.adminPassword )
                       => last'.result = "Unauthorized"
                 /\ ( /\ config.adminPassword # ""
                      /\ ToLowerCase(in.email) = ToLowerCase(config.adminEmail)
                      /\ in.password = config.adminPassword
                      /\ getDb(config) )
                       => ok
                 /\ ok => LET session == verifySessionToken(config, now, last'.value)
                          IN  /\ session # None
                              /\ session.userId \in UsersOf(db'.users, in.email)
                              /\ session.userId = last'.user.id
                              /\ DOMAIN db'.users = DOMAIN db.users
                 /\ ~ ok => WroteNothing ]_vars

\* A password login after the first second that succeeded, with one user
\* stored.
C13_Witness ==
    /\ last.proc = "loginWithPassword"
    /\ last.result = "ok"
    /\ autoInc.users = 2
    /\ \E g \in issued : g.token = last.value /\ g.issuedAt > 0

----------------------------------------------------------------------------
(* C14: POST /api/auth/login *)

LoginRoute == "POST /api/auth/login"

\* The body's credentials are the configured administrator's.
CorrectCredentials(body) ==
    /\ ~ Falsy(body.email) /\ ~ Falsy(body.password)
    /\ config.adminPassword # ""
    /\ ToLowerCase(body.email[1]) = ToLowerCase(config.adminEmail)
    /\ body.password[1] = config.adminPassword

\* C14 (as stated): POST /api/auth/login has exactly two outcomes: it sets
\* the session cookie and returns the user summary, or it responds with
\* status 401.
C14_CookieOr401 ==
    last.proc = LoginRoute =>
        \/ last.value.status = 200 /\ last.value.cookie # None
        \/ last.value.status = 401

\* C14: POST /api/auth/login has three outcomes: status 400 when the body
\* has no email or no password; for correct credentials the session cookie
\* and the summary of the user logged in; status 401 for every other
\* request.  The cookie is set only when the credentials are correct, and
\* holds a token of the user in the summary.
C14_CookieOr400Or401 ==
    [][CallStep(LoginRoute) =>
         LET body == last'.input
             res  == last'.value
         IN  /\ IF Falsy(body.email) \/ Falsy(body.password)
                THEN res.status = 400
                ELSE IF CorrectCredentials(body) /\ getDb(config)
                THEN /\ res.status = 200
                     /\ res.cookie # None
                     /\ res.json.success
                     /\ EqText(config, res.json.user.email, body.email[1])
                     /\ res.json.user.id \in UsersOf(db'.users, body.email[1])
                ELSE res.status = 401
             /\ res.cookie # None =>
                   /\ CorrectCredentials(body)
                   /\ res.status = 200
                   /\ LET session == verifySessionToken(config, now, res.cookie.value)
                      IN  session # None /\ session.userId = res.json.user.id
             /\ res.status # 200 => WroteNothing]_vars

\* A login over the route, with the administrator's email in another case,
\* that set the cookie and stored the first user.
C14_Witness ==
    /\ last.proc = LoginRoute
    /\ last.value.status = 200
    /\ last.value.cookie # None
    /\ last.input.email = Some("Admin@site.io")
    /\ DOMAIN db.users = {1}

----------------------------------------------------------------------------
(* C15: the administrator role *)

\* Logins and upserts within the first second, one call at a time, in
\* deployments with and without ADMIN_EMAIL, over either collation.
UpsertConfigs ==
    {[BaseConfig EXCEPT !.adminEmail = e, !.collation = c] :
        e \in {"admin@site.io", ""}, c \in Collations}

InitUpsert == \E cfg \in UpsertConfigs : Start(cfg)

NextUpsert ==
    \/ MayIssue /\ \E e \in Emails : LoginWithEmail(e)
    \/ MayIssue /\ \E e \in Emails : LoginWithPassword(e, "secret")
    \/ LoginLookup
    \/ LoginInsert
    \/ LoginReselect
    \/ LoginPromote
    \/ /\ Idle
       /\ autoInc.users <= MaxUpsertIds
       /\ \E user \in UpsertInputs : UpsertUser(user)
    \/ UpsertStatement
    \/ now < MsPerSecond /\ Tick(MsPerSecond)

SpecUpsert == InitUpsert /\ [][NextUpsert]_vars

\* Email e is the administrator email of the configuration.
IsAdminEmail(e) ==
    /\ config.adminEmail # ""
    /\ e # NULL
    /\ ToLowerCase(e[1]) = ToLowerCase(config.adminEmail)

\* The users a step logged in or upserted, by id.
Concerned ==
    IF last'.proc = "upsertUser"
    THEN {i \in DOMAIN db'.users : db'.users[i].openId = last'.input.openId}
    ELSE {last'.user.id}

\* C15: after every loginWithEmail, loginWithPassword or upsertUser that
\* succeeds, the stored role of the user is admin if and only if the user's
\* email is the administrator email configured at that time.
C15_RoleIffAdminEmail ==
    [][( /\ \/ CallStep("loginWithEmail")
            \/ CallStep("loginWithPassword")
            \/ CallStep("upsertUser")
         /\ last'.result = "ok" )
        => \A i \in Concerned :
              db'.users[i].role = "admin" <=> IsAdminEmail(db'.users[i].email)]_vars

----------------------------------------------------------------------------
(* C17 - C19: search *)

\* The contents of the seeded databases.  Every row but the first holds an
\* "a" or an "A" in one of the searched columns; every fourth essay and
\* paper is a draft.  Most rows differ in the column their search orders
\* by, some tie on it: every tenth photo is created in the second of the
\* photo before it, some essays have no publishedAt, and every seventh
\* paper has the year of the paper before it.
SeedText(i) ==
    CASE i = 1     -> <<"c">>
      [] i % 3 = 0 -> <<"b", "A">>
      [] OTHER     -> <<"a", "b">>

SeedPhoto(i) ==
    IF i % 2 = 0
    THEN [title |-> Some(SeedText(i)), imageUrl |-> Some("u")]
    ELSE [title |-> Some(<<"c">>), imageUrl |-> Some("u"),
          location |-> Some(SeedText(i))]

SeedEssay(i) ==
    IF i % 2 = 0
    THEN [title |-> Some(SeedText(i)), content |-> Some("text"),
          published |-> Some(i % 4 # 0),
          publishedAt |-> IF i % 12 = 2 THEN Undefined
                          ELSE Some(i * MsPerSecond)]
    ELSE [title |-> Some(<<"c">>), content |-> Some("text"),
          excerpt |-> Some(SeedText(i)), published |-> Some(TRUE),
          publishedAt |-> Some(i * MsPerSecond)]

SeedPaper(i) ==
    IF i % 2 = 0
    THEN [title |-> Some(SeedText(i)), authors |-> Some(<<"c">>),
          published |-> Some(i % 4 # 0),
          year |-> Some(1980 + i)]
    ELSE [title |-> Some(<<"c">>), authors |-> Some(SeedText(i)),
          published |-> Some(TRUE),
          year |-> IF i = 1 THEN Undefined
                   ELSE Some(1980 + (IF i % 7 = 0 THEN i - 1 ELSE i))]

\* The table after rows 1 .. n were created at time 0.
RECURSIVE Seed(_, _, _)
Seed(n, Input(_), DefaultRow) ==
    IF n = 0 THEN EmptyTable
    ELSE InsertInto(Seed(n - 1, Input, DefaultRow), n, 0, Input(n), DefaultRow)

\* The time row i was created: a second after the row before it, and every
\* tenth row 400 ms after the row before it.
SeedTime(i) ==
    IF i % 10 = 1 /\ i > 1 THEN (i - 1) * MsPerSecond + 400
    ELSE i * MsPerSecond

\* The table after rows 1 .. n were created, each at its time.
RECURSIVE SeedOneByOne(_, _, _)
SeedOneByOne(n, Input(_), DefaultRow) ==
    IF n = 0 THEN EmptyTable
    ELSE InsertInto(SeedOneByOne(n - 1, Input, DefaultRow), n, SeedTime(n),
                    Input(n), DefaultRow)

\* More rows than a bucket takes, also when the drafts are left out.
SeedRows == 2 * SearchLimit

SeedCounts ==
    { <<0, 0, 0>>, <<MaxRows, MaxRows, MaxRows>>, <<SeedRows, MaxRows, 0>>,
      <<MaxRows, SeedRows, SeedRows>> }

\* Deployments over either collation, one whose DATABASE_URL does not
\* parse, and one whose database server does not answer.
SearchConfigs ==
    {[BaseConfig EXCEPT !.collation = c] : c \in Collations}
    \cup {[BaseConfig EXCEPT !.databaseUrl = u] : u \in {MalformedUrl, UnreachableUrl}}

InitSearch ==
    \E cfg \in SearchConfigs, n \in SeedCounts :
        /\ buildConfig(cfg) = "ok"
        /\ now = SeedTime(SeedRows)
        /\ config = cfg
        /\ db = [EmptyDb EXCEPT
                    !.photos = SeedOneByOne(n[1], SeedPhoto, PhotoDefaults),
                    !.essays = SeedOneByOne(n[2], SeedEssay, EssayDefaults),
                    !.papers = SeedOneByOne(n[3], SeedPaper, PaperDefaults)]
        /\ autoInc = [FirstIds EXCEPT !.photos = n[1] + 1, !.essays = n[2] + 1,
                                      !.papers = n[3] + 1]
        /\ objects = EmptyBucket
        /\ s3Client = None
        /\ presigned = {}
        /\ pending = {}
        /\ issued = {}
        /\ last = NoCall

Queries == {<<>>, <<"a">>, <<"B">>, <<"a", "b">>, <<"b", "a">>, <<"x">>,
            <<"_">>, <<"%">>, <<"c", "%">>}

SearchInputs ==
    {[q |-> Some(q)] : q \in Queries}
    \cup {[q |-> Some(q), type |-> Some(t)] :
             q \in Queries, t \in {"photos", "essays", "papers"}}

NextSearch ==
    \E req \in Visitors, input \in SearchInputs : SearchQuery(req, input)

SpecSearch == InitSearch /\ [][NextSearch]_vars

BucketNames == {"photos", "essays", "papers"}

\* The columns searchContent looks into, by bucket.
Searched(b) ==
    CASE b = "photos" -> {"title", "description", "location", "tags"}
      [] b = "essays" -> {"title", "subtitle", "excerpt", "tags"}
      [] b = "papers" -> {"title", "abstract", "authors", "tags"}

\* text contains q as a substring, letters compared without case.
Contains(text, q) ==
    \E i \in 1 .. Len(text) - Len(q) + 1 :
        \A k \in 1 .. Len(q) : Fold(text[i + k - 1]) = Fold(q[k])

\* The row matches the query in one of the columns searched for bucket b.
Matches(row, b, q) ==
    \E c \in Searched(b) : row[c] # NULL /\ Contains(row[c][1], q)

\* The rows of table b that a search for q may return.
Qualifying(b, q) ==
    {i \in DOMAIN db[b] :
        /\ Matches(db[b][i], b, q)
        /\ b \in {"essays", "papers"} => db[b][i].published = Some(TRUE)}

\* The persistence backend of the deployment is unavailable: there is no
\* handle, or the server does not answer.
Unavailable(cfg) == ~ getDb(cfg) \/ ~ Answers(cfg)

\* C17: search.query always returns the three keys photos, essays and
\* papers; with a type filter only the bucket of that type can be
\* non-empty; when the backend is unavailable all three are empty.
C17_ThreeBuckets ==
    last.proc = "search.query" =>
        /\ last.result = "ok"
        /\ DOMAIN last.value = BucketNames
        /\ \A b \in BucketNames :
              /\ "type" \in DOMAIN last.input /\ last.input.type # Some(b)
                    => last.value[b] = <<>>
              /\ Unavailable(config) => last.value[b] = <<>>

\* What the code keeps of C17: on a server that answers, and without a
\* database handle, search.query returns the three keys, only the bucket of
\* a given type can be non-empty, and without a handle all are empty.
ThreeBucketsIfAnswered ==
    (last.proc = "search.query" /\ Answers(config)) =>
        /\ last.result = "ok"
        /\ DOMAIN last.value = BucketNames
        /\ \A b \in BucketNames :
              /\ "type" \in DOMAIN last.input /\ last.input.type # Some(b)
                    => last.value[b] = <<>>
              /\ ~ getDb(config) => last.value[b] = <<>>

\* A search of the essays only that found some, in a database whose photos
\* and papers match the query as well.
SearchedEssaysOnly ==
    /\ last.proc = "search.query"
    /\ last.result = "ok"
    /\ last.input = [q |-> Some(<<"a">>), type |-> Some("essays")]
    /\ last.value.essays # <<>>
    /\ Qualifying("photos", <<"a">>) # {}
    /\ Qualifying("papers", <<"a">>) # {}

\* A search was made of a database whose server does not answer, and threw.
SearchThrows ==
    /\ last.proc = "search.query"
    /\ ~ Answers(config)
    /\ last.result = "Error"

\* C18: the essays and the papers of a search result are published, and no
\* bucket holds more than 20 items.
C18_PublishedAndLimited ==
    (last.proc = "search.query" /\ last.result = "ok") =>
        /\ \A b \in {"essays", "papers"} :
              \A k \in 1 .. Len(last.value[b]) :
                  last.value[b][k].published = Some(TRUE)
        /\ \A b \in BucketNames : Len(last.value[b]) <= 20

\* A search that filled the essays bucket to its limit and left out the
\* drafts that match and published essays beyond the limit.
C18_Witness ==
    /\ last.proc = "search.query"
    /\ last.result = "ok"
    /\ last.input = [q |-> Some(<<"a">>)]
    /\ Len(last.value.essays) = 20
    /\ Cardinality(Qualifying("essays", <<"a">>)) > 20
    /\ \E i \in DOMAIN db.essays :
          /\ Matches(db.essays[i], "essays", <<"a">>)
          /\ db.essays[i].published = Some(FALSE)

\* C19: every item of a search result holds the query q, as a substring
\* without regard to case, in one of the columns searched; if no item
\* matches, all buckets are empty; for every query string q.
C19_OnlySubstringMatches ==
    (last.proc = "search.query" /\ last.result = "ok") =>
        \A b \in BucketNames :
            \A k \in 1 .. Len(last.value[b]) :
                Matches(last.value[b][k], b, last.input.q[1])

----------------------------------------------------------------------------
(* C20: uploads *)

\* Uploads of small and large files, by the administrator and by a visitor,
\* one at a time, and direct calls of the storage functions, whose puts and
\* deletes overlap with each other and with the PutObject of an upload in
\* flight; with and without configured storage.
UploadConfigs ==
    {BaseConfig, [BaseConfig EXCEPT !.bucket = ""],
     [BaseConfig EXCEPT !.accessKeyId = ""],
     [BaseConfig EXCEPT !.secretAccessKey = ""]}

\* The bucket with the one object that an upload.image of an earlier,
\* configured run stored.
EarlierBucket ==
    PutObject(EmptyBucket, FileKey("images", 0, "f.png"),
              [contentType |-> "image/png", body |-> Payload(1)])

InitUpload ==
    \E cfg \in UploadConfigs, bucket \in {EmptyBucket, EarlierBucket} :
        LET users == createUser(EmptyTable, 1, 0, 0, NewUser(cfg, cfg.adminEmail))
        IN  /\ buildConfig(cfg) = "ok"
            /\ now = 0
            /\ config = cfg
            /\ db = [EmptyDb EXCEPT !.users = users]
            /\ autoInc = [FirstIds EXCEPT !.users = 2]
            /\ objects = bucket
            /\ s3Client = None
            /\ presigned = {}
            /\ pending = {}
            /\ issued = {Grant(SessionFor(cfg, 0, users[1]), 0, cfg.sessionMaxAge)}
            /\ last = NoCall

Images ==
    [ filename : {Some("f.png")}, contentType : {Some("image/png"), Some("text/plain")},
      base64Data : {Some(Payload(1)), Some(Payload(11)), Some(Payload(51))} ]

Pdfs ==
    [ filename : {Some("f.pdf")},
      base64Data : {Some(Payload(1)), Some(Payload(37)), Some(Payload(51))} ]

\* Keys of direct calls: one key, written with and without leading slashes,
\* and the key of the earlier upload.
DirectKeys ==
    {[slashes |-> n, path |-> <<"direct", 0, "f">>] : n \in {0, 2}}
    \cup {FileKey("images", 0, "f.png")}

MayPut == Cardinality(DOMAIN objects) < MaxRows

\* Commands in flight at once when a direct put or delete is called.
MaxSends == 2

MaySend ==
    /\ Cardinality(pending) < MaxSends
    /\ \A p \in pending : p.pc = "send"

NextUpload ==
    \/ MayPut /\ \E req \in Visitors \cup Admins, input \in Images :
                    UploadImage(req, input)
    \/ MayPut /\ \E req \in Visitors \cup Admins, input \in Pdfs :
                    UploadPdf(req, input)
    \/ MaySend /\ \E key \in DirectKeys, n \in {1, 2} :
                    StoragePut(key, Payload(n), "text/plain")
    \/ StoragePutSend
    \/ MaySend /\ \E key \in DirectKeys : StorageDelete(key)
    \/ StorageDeleteSend
    \/ Idle /\ \E key \in DirectKeys : StorageGet(key)
    \/ Idle /\ Cardinality(presigned) < MaxRows
            /\ \E key \in DirectKeys : GetPresignedUploadUrl(key, "image/png")
    \/ Idle /\ \E url \in presigned : PresignedPut(url, Payload(2))

SpecUpload == InitUpload /\ [][NextUpload]_vars

\* The upload does not pass the validation the claim describes.
Invalid(proc, input) ==
    IF proc = "upload.image"
    THEN \/ input.contentType \notin {Some("image/png"), Some("image/jpeg")}
         \/ input.base64Data[1].megabytes > 10
    ELSE input.base64Data[1].megabytes > 50

\* C20: an upload.image whose contentType is not an image MIME type or whose
\* payload is over 10 MB, and an upload.pdf whose payload is over 50 MB, is
\* rejected, and storagePut is not called for it.
C20_InvalidUploadsNotStored ==
    [][( /\ now' = now
         /\ last'.proc \in UploadProcedures
         /\ Invalid(last'.proc, last'.input) )
        => last'.result # "ok" /\ objects' = objects]_vars

----------------------------------------------------------------------------
(* C21: storage that is not configured *)

StorageCalls == UploadProcedures \cup {"storagePut"}

\* The call that returns in the step is an upload or a direct storagePut, in
\* a deployment without the access key, the secret key or the bucket.
ReturnsUnconfigured ==
    /\ last'.proc \in StorageCalls
    /\ ~ isStorageConfigured(config)

\* C21 (as stated): when the access key, the secret key or the bucket is
\* not configured, every upload.image and upload.pdf call and every direct
\* storagePut call fails with the configuration error, no S3 client is
\* constructed or cached, and nothing is sent to the bucket.
C21_EveryCallConfigurationError ==
    [][ ReturnsUnconfigured =>
           /\ last'.result = "Error"
           /\ s3Client = None /\ s3Client' = None
           /\ objects' = objects ]_vars

\* The body of the upload is over the limit of the JSON body parser.
OverJsonLimit(proc, input) ==
    /\ proc \in UploadProcedures
    /\ Base64Length(input.base64Data[1].megabytes) > JsonLimit

\* C21 (amended): when the access key, the secret key or the bucket is not
\* configured, every direct storagePut call, and every upload.image and
\* upload.pdf call made with a valid admin session and a body within the
\* parser's limit, fails with the configuration error; an upload whose body
\* is over the limit is refused with 413, and otherwise one without a valid
\* session with Unauthorized and one of a user who is not admin with
\* Forbidden; in every case no S3 client is constructed or cached and
\* nothing is sent to the bucket.
C21_NotConfiguredFailsFirst ==
    [][ ReturnsUnconfigured =>
           /\ last'.result =
                 IF OverJsonLimit(last'.proc, last'.input) THEN "PayloadTooLarge"
                 ELSE IF last'.proc = "storagePut" THEN "Error"
                 ELSE IF ~ ArrivedWithSession THEN "Unauthorized"
                 ELSE IF SessionRole(last'.req) # "admin" THEN "Forbidden"
                 ELSE "Error"
           /\ s3Client = None /\ s3Client' = None
           /\ objects' = objects ]_vars

\* The administrator's upload failed for want of a secret key, in a
\* deployment whose bucket holds an object of an earlier, configured run.
C21_Witness ==
    /\ last.proc \in UploadProcedures
    /\ last.result = "Error"
    /\ last.user # None
    /\ config.secretAccessKey = ""
    /\ objects # EmptyBucket
    /\ s3Client = None

----------------------------------------------------------------------------
(* C22: the repository without a database *)

\* getSetting(key): the value stored under the key, if any.
getSetting(cfg, tbl, key) ==
    IF ~ getDb(cfg) THEN None
    ELSE IF key \in DOMAIN tbl THEN Some(tbl[key]) ELSE None

\* setSetting(key, value): insert, or update the value on a duplicate key.
setSetting(cfg, tbl, key, value) ==
    IF ~ getDb(cfg) \/ ~ Answers(cfg) THEN Threw(tbl)
    ELSE [ result |-> "ok",
           table  |-> [k \in DOMAIN tbl \cup {key} |->
                          IF k = key THEN value ELSE tbl[k]],
           value  |-> [success |-> TRUE] ]

RepositoryReads ==
    { "getAllPhotos", "getPhotoById", "getAllEssays", "getEssayById",
      "getAllPapers", "getPaperById", "searchContent", "getUserById",
      "getUserByEmail", "getUserByOpenId", "getSetting" }

RepositoryWrites ==
    { "createPhoto", "updatePhoto", "deletePhoto", "createEssay", "updateEssay",
      "deleteEssay", "createPaper", "updatePaper", "deletePaper", "createUser",
      "updateUserRole", "updateUserLastSignedIn", "upsertUser", "setSetting" }

RepositoryPatch == [title |-> Some(<<"b">>)]

\* The inputs of the direct calls: for the writes of photos and for
\* upsertUser also objects with null values, which TypeScript admits for
\* the nullable columns and the router's schemas do not.
RepositoryInputs(name) ==
    CASE name = "createPhoto" ->
            { GatePhoto,
              [title |-> Some(<<"a">>), imageUrl |-> Some("u"),
               featured |-> NULL, sortOrder |-> NULL],
              [title |-> NULL, imageUrl |-> Some("u")] }
      [] name = "updatePhoto" ->
            { RepositoryPatch, [category |-> NULL], [title |-> NULL],
              [title |-> Undefined] }
      [] name = "upsertUser" ->
            { [openId |-> ExternalId, email |-> Some("user@site.io")],
              [openId |-> ExternalId, name |-> NULL],
              [openId |-> ExternalId, name |-> Undefined] }
      [] name = "searchContent" ->
            {[q |-> Some(<<"a">>)], [q |-> Some(<<"a">>), type |-> Some("")]}
      [] OTHER -> {EmptyInput}

\* The functions of server/db.ts with a single statement, called directly
\* on row 1 or with the given input: the outcomes [result, value, tn, table,
\* consumed] the call may have, table being table tn afterwards and
\* consumed telling whether the statement took an AUTO_INCREMENT id.  date
\* is the time at which the function was called, which the functions that
\* read the clock (new Date(), Date.now()) put into the statement; the
\* statement is executed on the state and at the time of the step.
Repository(name, input, date) ==
    LET R(r) == [result |-> r.result, value |-> r.value, tn |-> "users",
                 table |-> db.users, consumed |-> FALSE]
        W(tn, r, inserts) ==
                [result |-> r.result, value |-> r.value, tn |-> tn,
                 table |-> r.table, consumed |-> inserts /\ r.result = "ok"]
        up == upsertUser(config, db.users, autoInc.users, date, now, input)
    IN  CASE name = "getAllPhotos" ->
                {R(r) : r \in getAllPhotos(config, db.photos, EmptyInput)}
          [] name = "getPhotoById" -> {R(Select(config, getPhotoById(config, db.photos, 1)))}
          [] name = "getAllEssays" ->
                {R(r) : r \in getAllEssays(config, db.essays, EmptyInput)}
          [] name = "getEssayById" -> {R(Select(config, getEssayById(config, db.essays, 1)))}
          [] name = "getAllPapers" ->
                {R(r) : r \in getAllPapers(config, db.papers, EmptyInput)}
          [] name = "getPaperById" -> {R(Select(config, getPaperById(config, db.papers, 1)))}
          [] name = "getUserById" -> {R(Select(config, getUserById(config, db.users, 1)))}
          [] name = "getUserByEmail" ->
                {R(Select(config, u)) : u \in getUserByEmail(config, db.users, "user@site.io")}
          [] name = "getUserByOpenId" ->
                {R(Select(config, getUserByOpenId(config, db.users, ExternalId)))}
          [] name = "getSetting" ->
                {R(Select(config, getSetting(config, db.siteSettings, "site")))}
          [] name = "createPhoto" ->
                {W("photos",
                   createPhoto(config, db.photos, autoInc.photos, now, input), TRUE)}
          [] name = "updatePhoto" ->
                {W("photos", updatePhoto(config, db.photos, 1, now, input), FALSE)}
          [] name = "deletePhoto" ->
                {W("photos", deletePhoto(config, db.photos, 1), FALSE)}
          [] name = "createEssay" ->
                {W("essays",
                   createEssay(config, db.essays, autoInc.essays, now, GateEssay), TRUE)}
          [] name = "updateEssay" ->
                {W("essays",
                   updateEssay(config, db.essays, 1, now, RepositoryPatch), FALSE)}
          [] name = "deleteEssay" ->
                {W("essays", deleteEssay(config, db.essays, 1), FALSE)}
          [] name = "createPaper" ->
                {W("papers",
                   createPaper(config, db.papers, autoInc.papers, now, GatePaper), TRUE)}
          [] name = "updatePaper" ->
                {W("papers",
                   updatePaper(config, db.papers, 1, now, RepositoryPatch), FALSE)}
          [] name = "deletePaper" ->
                {W("papers", deletePaper(config, db.papers, 1), FALSE)}
          [] name = "createUser" ->
                {W("users",
                   IF ~ getDb(config) \/ ~ Answers(config) THEN Threw(db.users)
                   ELSE [ result |-> "ok", value |-> [id |-> autoInc.users],
                          table |-> createUser(db.users, autoInc.users, date, now,
                                       [email |-> "user@site.io", name |-> "user",
                                        role |-> "user"]) ],
                   TRUE)}
          [] name = "updateUserRole" ->
                {W("users",
                   IF ~ getDb(config) \/ ~ Answers(config) THEN Threw(db.users)
                   ELSE [ result |-> "ok", value |-> None,
                          table |-> updateUserRole(db.users, 1, "admin", now) ],
                   FALSE)}
          [] name = "updateUserLastSignedIn" ->
                {W("users",
                   IF getDb(config) /\ ~ Answers(config) THEN Threw(db.users)
                   ELSE [ result |-> "ok", value |-> None,
                          table |-> updateUserLastSignedIn(config, db.users, 1,
                                                           date, now) ],
                   FALSE)}
          [] name = "upsertUser" ->
                {[ result |-> up.result, value |-> None, tn |-> "users",
                   table |-> up.users, consumed |-> up.consumed ]}
          [] name = "setSetting" ->
                {W("siteSettings",
                   setSetting(config, db.siteSettings, "site", "v"), FALSE)}

\* searchContent(query, type) called directly, one awaited SELECT further:
\* p is the call, which returns after its last SELECT, or throws when a
\* SELECT rejects.
SearchContentStep(p) ==
    \E s \in searchContent(config, db, p.input.q[1], Opt(p.input, "type"),
                           p.acc) :
        /\ IF s = SearchThrew
           THEN Finish(p, None, "Error", None, None)
           ELSE IF s.todo = <<>>
           THEN Finish(p, None, "ok", s.results, None)
           ELSE Await(p, [p EXCEPT !.acc = s])
        /\ UNCHANGED <<now, config, db, autoInc, objects, s3Client, presigned,
                       issued>>

\* A SELECT of a searchContent in flight.
SearchContentSelect ==
    \E p \in {q \in pending : q.proc = "searchContent"} : SearchContentStep(p)

\* A function of the repository is called.  Without a database it returns
\* or throws at once, whatever the tables hold; with one it runs up to the
\* statement it awaits, having read the clock if it reads it.
RepositoryCall(name, input) ==
    LET p == NewCall(name, NoRequest, input, "statement")
    IN  /\ IF ~ getDb(config)
           THEN IF name = "searchContent"
                THEN Finish(p, None, "ok", NoResults, None)
                ELSE \E r \in Repository(name, input, now) :
                        Finish(p, None, r.result, r.value, None)
           ELSE Await(p, p)
        /\ UNCHANGED <<now, config, db, autoInc, objects, s3Client, presigned,
                       issued>>

\* The statement of a call in flight of a function with one statement is
\* executed, and the function returns or throws.
RepositoryStatement ==
    \E p \in {q \in pending : q.proc # "searchContent"} :
        \E r \in Repository(p.proc, p.input, p.date) :
            /\ db' = [db EXCEPT ![r.tn] = r.table]
            /\ autoInc' = IF r.consumed THEN [autoInc EXCEPT ![r.tn] = @ + 1]
                          ELSE autoInc
            /\ Finish(p, None, r.result, r.value, None)
            /\ UNCHANGED <<now, config, objects, s3Client, presigned, issued>>

\* A deployment with a database, and one whose DATABASE_URL does not parse.
RepositoryConfigs == {BaseConfig, [BaseConfig EXCEPT !.databaseUrl = MalformedUrl]}

InitRepository == \E cfg \in RepositoryConfigs : Start(cfg)

\* One search and one call of another function are in flight at most, so
\* that the other functions are served between the SELECTs of a search.
MayCall(name) ==
    \A p \in pending : (p.proc = "searchContent") # (name = "searchContent")

NextRepository ==
    \/ now < MsPerSecond /\ Tick(MsPerSecond)
    \/ /\ Inserted + autoInc.users - 1 < MaxRows
       /\ \E name \in RepositoryReads \cup RepositoryWrites :
             /\ MayCall(name)
             /\ \E input \in RepositoryInputs(name) : RepositoryCall(name, input)
    \/ RepositoryStatement
    \/ SearchContentSelect

SpecRepository == InitRepository /\ [][NextRepository]_vars

\* The value is what a read returns when it finds nothing.
Nothing(proc, value) ==
    CASE proc \in {"getAllPhotos", "getAllEssays", "getAllPapers"} -> value = <<>>
      [] proc = "searchContent" ->
            value = [photos |-> <<>>, essays |-> <<>>, papers |-> <<>>]
      [] OTHER -> value = None

\* C22: without a database every repository read returns an empty or absent
\* result without throwing, and every repository write throws an error.
C22_ReadsEmptyWritesThrow ==
    ~ getDb(config) =>
        /\ last.proc \in RepositoryReads =>
              last.result = "ok" /\ Nothing(last.proc, last.value)
        /\ last.proc \in RepositoryWrites => last.result = "Error"

----------------------------------------------------------------------------
(* C23: backgrounds *)

BackgroundsAdminOnly ==
    { "backgrounds.listAll", "backgrounds.get", "backgrounds.create",
      "backgrounds.update", "backgrounds.delete" }

\* C23: backgrounds.list returns only backgrounds with active = true, and a
\* call of backgrounds.listAll, get, create, update or delete without a valid
\* admin session is rejected and returns no background data.
C23_BackgroundsGated ==
    /\ last.proc = "backgrounds.list" =>
          \A k \in 1 .. Len(last.value) : last.value[k].active = Some(TRUE)
    /\ (last.proc \in BackgroundsAdminOnly /\ ~ HadAdminSession) =>
          /\ last.result \in {"Unauthorized", "Forbidden"}
          /\ last.value = None

----------------------------------------------------------------------------
(* The cookie specification: logins and logouts over http and https, in    *)
(* production and in development, by callers with and without a session,   *)
(* one call at a time.                                                     *)

CookieConfigs ==
    { [BaseConfig EXCEPT !.nodeEnv = e] : e \in {"production", "development"} }

Protocols == {"http", "https"}

\* x-forwarded-proto: absent, one entry, an entry in capitals with a space
\* before it, and a list whose second entry is https.
ForwardedProtos ==
    { <<>>, <<"http">>, <<" HTTPS">>, <<" http", "Https ">> }

Transports(req) ==
    { Transport(req, p, f) : p \in Protocols, f \in ForwardedProtos }

CookieRequests == UNION { Transports(req) : req \in Requests }

\* The administrator's credentials, and a wrong password.
CookieBodies ==
    { [email |-> Some("admin@site.io"), password |-> Some(p)] :
        p \in {"secret", "wrong"} }

InitCookies == \E cfg \in CookieConfigs : Start(cfg) \/ StartAfterEarlier(cfg)

NextCookies ==
    \/ now < MsPerSecond /\ Tick(TickMs)
    \/ MayIssue /\ \E req \in Transports(NoRequest), body \in CookieBodies :
                      PostAuthLogin(req, body)
    \/ Idle /\ MayIssue /\ \E id \in DOMAIN db.users :
                      CreateSessionToken(id, MsPerSecond)
    \/ Idle /\ MayIssue /\ \E k \in Secrets, id \in DOMAIN db.users :
                      ForeignSessionToken(k, id, "admin", MsPerDay)
    \/ \E req \in CookieRequests : AuthLogout(req)
    \/ Idle /\ \E req \in CookieRequests : PostAuthLogout(req)
    \/ \E req \in Requests : AuthenticateRequest(req)
    \/ LoginLookup
    \/ LoginInsert
    \/ LoginReselect
    \/ LoginPromote

SpecCookies == InitCookies /\ [][NextCookies]_vars

\* The last operation was a logout.
Logout == last.proc \in {"auth.logout", "POST /api/auth/logout"}

\* The answer of the last logout: the return value of the procedure, the JSON
\* body of the route.
LogoutAnswer ==
    IF last.proc = "auth.logout" THEN last.value ELSE last.value.json

\* The cookie is an instruction to drop the session cookie: no value, and
\* a lifetime that has already ended.
Clears(cookie) == cookie # None /\ cookie.value = Blank /\ cookie.maxAge < 0

\* C24: auth.logout and POST /api/auth/logout succeed with {success: true}
\* and clear the session cookie, whoever calls: a caller without a token,
\* with a token that does not verify or has expired, or with a session.
C24_LogoutAlwaysSucceeds ==
    Logout => /\ last.result = "ok"
              /\ LogoutAnswer = [success |-> TRUE]
              /\ Clears(last.cookie)

\* A caller whose token was signed by this service and has expired logged
\* out, and was told to drop the cookie.
C24_Witness ==
    /\ Logout
    /\ last.result = "ok"
    /\ Clears(last.cookie)
    /\ Truthy(getSessionToken(last.req))
    /\ OwnToken(getSessionToken(last.req))
    /\ ~ Verifies(getSessionToken(last.req))

----------------------------------------------------------------------------
(* C26: attributes of the session cookie *)

\* The request is HTTPS: it arrived over https, or its x-forwarded-proto
\* header names https in one of its entries, in any case and spacing.
Https(req) ==
    \/ Protocol(req) = "https"
    \/ \E i \in DOMAIN ForwardedProto(req) :
          ForwardedProto(req)[i] \in {"https", " HTTPS", "Https "}

\* C26: every session cookie the server sets or clears is httpOnly with path
\* "/"; it is secure exactly when the request is HTTPS, directly or by
\* x-forwarded-proto; its SameSite is None exactly when the server runs in
\* production and the request is HTTPS, and Lax otherwise; so SameSite=None
\* is never sent without secure.
C26_CookieAttributes ==
    last.cookie # None =>
        /\ last.cookie.httpOnly
        /\ last.cookie.path = "/"
        /\ last.cookie.secure <=> Https(last.req)
        /\ last.cookie.sameSite =
               IF config.nodeEnv = "production" /\ Https(last.req)
               THEN "none" ELSE "lax"
        /\ last.cookie.sameSite = "none" => last.cookie.secure

\* In production a login over plain http, forwarded by a proxy whose
\* x-forwarded-proto lists https second, set a secure SameSite=None cookie.
C26_Witness ==
    /\ last.proc = "POST /api/auth/login"
    /\ last.cookie # None
    /\ Protocol(last.req) = "http"
    /\ ForwardedProto(last.req) = <<" http", "Https ">>
    /\ last.cookie.value \in Tokens
    /\ last.cookie.secure
    /\ last.cookie.sameSite = "none"

----------------------------------------------------------------------------
(* C29: logout revokes nothing *)

\* The step is a logout.
LogoutStep == CallStep("auth.logout") \/ CallStep("POST /api/auth/logout")

\* The id of the user that a request authenticates as over the users table
\* tbl: <<id>>, or <<>> when authentication fails.
AuthenticatesAs(tbl, req) ==
    LET session == verifySessionToken(config, now, getSessionToken(req))
        user    == authenticateRequest(session,
                       IF session = None THEN None
                       ELSE getUserById(config, tbl, session.userId))
    IN  IF user = None THEN <<>> ELSE <<user.id>>

\* The id of the user whose session the request of the call that returns in
\* the step carried when it arrived: <<id>>, or <<>>.
Caller ==
    IF ArrivedWithSession THEN <<getSessionToken(last'.req).userId>> ELSE <<>>

\* The user row without its sign-in and update timestamps.
Identity(user) == [user EXCEPT !.lastSignedIn = Undefined, !.updatedAt = Undefined]

\* C29 (as stated): a logout changes no server-side state.
C29_LogoutChangesNothing ==
    [][LogoutStep => db' = db /\ issued' = issued /\ autoInc' = autoInc]_vars

\* C29 (amended): a logout revokes nothing.  Every token authenticates after
\* the logout, by cookie and by Bearer header, as the same user as before it,
\* or fails as before it.  POST /api/auth/logout writes nothing; auth.logout
\* by a caller with a valid session writes lastSignedIn and updatedAt of that
\* caller's user, as every authenticated call does, and nothing else.
C29_LogoutRevokesNothing ==
    [][LogoutStep =>
         /\ issued' = issued /\ autoInc' = autoInc /\ config' = config
         /\ \A g \in issued :
              \A req \in {CookieRequest(g.token), BearerRequest(g.token)} :
                 AuthenticatesAs(db'.users, req) = AuthenticatesAs(db.users, req)
         /\ [db' EXCEPT !.users = db.users] = db
         /\ DOMAIN db'.users = DOMAIN db.users
         /\ \A i \in DOMAIN db.users :
              /\ Identity(db'.users[i]) = Identity(db.users[i])
              /\ Caller # <<i>> => db'.users[i] = db.users[i]
         /\ last'.proc = "POST /api/auth/logout" => db' = db ]_vars

\* The administrator has logged out with auth.logout a second after logging
\* in: the logout wrote the sign-in time, and the token it was made with
\* still verifies and authenticates.
C29_Witness ==
    /\ last.proc = "auth.logout"
    /\ last.result = "ok"
    /\ Clears(last.cookie)
    /\ Verifies(getSessionToken(last.req))
    /\ AuthenticatesAs(db.users, last.req) # <<>>
    /\ \E i \in DOMAIN db.users :
          /\ AuthenticatesAs(db.users, last.req) = <<i>>
          /\ db.users[i].lastSignedIn # db.users[i].createdAt

----------------------------------------------------------------------------
(* The list specification: getAllPhotos, getAllEssays and getAllPapers on   *)
(* seeded tables whose rows tie on the sort column, on createdAt and on     *)
(* both, with every combination of filter and limit.                        *)

ListPhoto(i) ==
    [ title |-> Some(<<"a">>), imageUrl |-> Some("u"),
      sortOrder |-> Some(IF i % 3 = 0 THEN 1 ELSE 0),
      featured |-> Some(i % 2 = 0),
      category |-> IF i = 1 THEN Undefined ELSE Some("x") ]

ListEssay(i) ==
    [ title |-> Some(<<"a">>), content |-> Some("text"),
      published |-> Some(i % 4 # 0),
      publishedAt |-> IF i % 3 = 0 THEN Undefined
                      ELSE Some((i % 2) * MsPerSecond),
      featured |-> Some(i % 2 = 0),
      category |-> IF i = 1 THEN Undefined ELSE Some("x") ]

ListPaper(i) ==
    [ title |-> Some(<<"a">>), authors |-> Some(<<"b">>),
      published |-> Some(i % 4 # 0),
      year |-> IF i % 3 = 0 THEN Undefined ELSE Some(2000 + (i % 2)),
      featured |-> Some(i % 2 = 0),
      category |-> IF i = 1 THEN Undefined ELSE Some("x") ]

\* The table after rows 1 .. n were created, two in each second.
RECURSIVE SeedOverTime(_, _, _)
SeedOverTime(n, Input(_), DefaultRow) ==
    IF n = 0 THEN EmptyTable
    ELSE InsertInto(SeedOverTime(n - 1, Input, DefaultRow), n,
                    (n \div 2) * MsPerSecond, Input(n), DefaultRow)

ListRows == 6

ListCounts == {0, 1, ListRows}

\* Limits: none, negative, zero, below, at and above the number of rows.
ListLimits ==
    {Undefined, Some(-1), Some(0), Some(1), Some(2), Some(ListRows),
     Some(ListRows + 1)}

\* Options absent, given, and (for photos) null; a category in the case
\* stored and in the other case.
PhotoOptions ==
    [ featured : {Undefined, NULL, Some(TRUE)},
      category : {Undefined, NULL, Some("x"), Some("X")},
      limit : ListLimits ]

ContentOptions ==
    [ published : {Undefined, Some(TRUE)}, featured : {Undefined, Some(TRUE)},
      category : {Undefined, Some("x")}, limit : ListLimits ]

InitLists ==
    \E n \in ListCounts, c \in Collations, d \in NegativeLimits :
        /\ now = (ListRows \div 2) * MsPerSecond
        /\ config = [BaseConfig EXCEPT !.collation = c, !.negativeLimit = d]
        /\ db = [EmptyDb EXCEPT
                    !.photos = SeedOverTime(n, ListPhoto, PhotoDefaults),
                    !.essays = SeedOverTime(n, ListEssay, EssayDefaults),
                    !.papers = SeedOverTime(n, ListPaper, PaperDefaults)]
        /\ autoInc = [FirstIds EXCEPT !.photos = n + 1, !.essays = n + 1,
                                      !.papers = n + 1]
        /\ objects = EmptyBucket
        /\ s3Client = None
        /\ presigned = {}
        /\ pending = {}
        /\ issued = {}
        /\ last = NoCall

\* A call of a list function of the repository, with one of the outcomes
\* it may have.
GetAll(name, outcomes, options) ==
    \E r \in outcomes :
        /\ last' = Reply(name, None, options, r.result, r.value)
        /\ UNCHANGED <<now, config, db, autoInc, objects, s3Client, presigned,
                       pending, issued>>

NextLists ==
    \/ \E options \in PhotoOptions :
          GetAll("getAllPhotos", getAllPhotos(config, db.photos, options), options)
    \/ \E options \in ContentOptions :
          GetAll("getAllEssays", getAllEssays(config, db.essays, options), options)
    \/ \E options \in ContentOptions :
          GetAll("getAllPapers", getAllPapers(config, db.papers, options), options)

SpecLists == InitLists /\ [][NextLists]_vars

ListFunctions == {"getAllPhotos", "getAllEssays", "getAllPapers"}

\* The table a list function reads and the column it orders by first.
ListTable(name) ==
    CASE name = "getAllPhotos" -> db.photos
      [] name = "getAllEssays" -> db.essays
      [] name = "getAllPapers" -> db.papers

ListColumn(name) ==
    CASE name = "getAllPhotos" -> "sortOrder"
      [] name = "getAllEssays" -> "publishedAt"
      [] name = "getAllPapers" -> "year"

\* The results the same call may have without its limit.
Unlimited(name, options) ==
    LET o == [options EXCEPT !.limit = Undefined]
        outcomes ==
            CASE name = "getAllPhotos" -> getAllPhotos(config, db.photos, o)
              [] name = "getAllEssays" -> getAllEssays(config, db.essays, o)
              [] name = "getAllPapers" -> getAllPapers(config, db.papers, o)
    IN  {r.value : r \in outcomes}

\* The place of a value in a descending order: greater first, NULL last.
Rank(v) == IF v = NULL THEN -1 ELSE v[1]

\* rows is in descending order of column c, then of createdAt.
Descending(rows, c) ==
    \A i, j \in DOMAIN rows :
        i < j => \/ Rank(rows[i][c]) > Rank(rows[j][c])
                 \/ /\ Rank(rows[i][c]) = Rank(rows[j][c])
                    /\ Rank(rows[i].createdAt) >= Rank(rows[j].createdAt)

\* rows are the first items of all.
Prefix(rows, all) ==
    Len(rows) <= Len(all) /\ rows = SubSeq(all, 1, Len(rows))

NoFilter(options) ==
    \A k \in DOMAIN options \ {"limit"} : options[k] = Undefined

\* What C27 says of a list call with limit n (when limited) that ended
\* with result and rows: it returned, and the rows are the first items of
\* an unlimited result, every one of which is in the default ordering.
ListContract(name, options, result, rows, limited, n) ==
    /\ result = "ok"
    /\ \A all \in Unlimited(name, options) : Descending(all, ListColumn(name))
    /\ limited => /\ Len(rows) <= n
                  /\ \E all \in Unlimited(name, options) :
                        /\ Prefix(rows, all)
                        /\ Len(rows) < n => rows = all
    /\ (~ limited /\ NoFilter(options)) =>
          /\ Len(rows) = Cardinality(DOMAIN ListTable(name))
          /\ {rows[i] : i \in DOMAIN rows} =
                 {ListTable(name)[i] : i \in DOMAIN ListTable(name)}

\* C27: a list call that supplies a limit returns at most limit items, which
\* are the first items of the unlimited result in the default ordering
\* (photos by sortOrder, essays by publishedAt, papers by year, each
\* descending, then by createdAt descending); a call with no filter and no
\* limit returns all rows.
C27_LimitIsPrefix ==
    last.proc \in ListFunctions =>
        ListContract(last.proc, last.input, last.result, last.value,
                     last.input.limit # Undefined,
                     IF last.input.limit = Undefined THEN 0
                     ELSE last.input.limit[1])

\* The limit of the last call is absent or positive.
PositiveLimit ==
    last.input.limit = Undefined \/ last.input.limit[1] > 0

\* The same for the calls without a limit and with a positive one.
ListContractPositive ==
    (last.proc \in ListFunctions /\ PositiveLimit) =>
        ListContract(last.proc, last.input, last.result, last.value,
                     last.input.limit # Undefined,
                     IF last.input.limit = Undefined THEN 0
                     ELSE last.input.limit[1])

\* A limit of zero returns what the call without limit may return.
ZeroIsUnlimited ==
    (last.proc \in ListFunctions /\ last.input.limit = Some(0)) =>
        last.result = "ok" /\ last.value \in Unlimited(last.proc, last.input)

\* A negative limit returns what the call without limit may return, or the
\* call throws, as the installed drizzle-orm has it.
NegativeIsUnlimitedOrThrows ==
    (last.proc \in ListFunctions /\ last.input.limit = Some(-1)) =>
        IF config.negativeLimit = "dropped"
        THEN last.result = "ok" /\ last.value \in Unlimited(last.proc, last.input)
        ELSE last.result = "Error"

\* A limited call returns the first items of whatever the unlimited call
\* returns: not so when rows tie at the cut.
PrefixOfEveryOrder ==
    (last.proc \in ListFunctions /\ last.result = "ok"
        /\ last.input.limit # Undefined /\ last.input.limit[1] > 0) =>
        \A all \in Unlimited(last.proc, last.input) : Prefix(last.value, all)
----------------------------------------------------------------------------
(* C30: logins that overlap.  A login is suspended at each statement it    *)
(* awaits, and the statements of other logins are executed before it       *)
(* resumes.                                                                *)

\* Logins in flight at once.
MaxLogins == 2

ConcurrentConfigs == {[BaseConfig EXCEPT !.collation = c] : c \in Collations}

InitConcurrentLogins ==
    \E cfg \in ConcurrentConfigs : Start(cfg) \/ StartAfterEarlier(cfg)

MayLogin == Cardinality(pending) < MaxLogins /\ MayIssue

NextConcurrentLogins ==
    \/ now < MsPerSecond /\ Tick(MsPerSecond)
    \/ MayLogin /\ \E e \in LoginEmails : CallLoginWithEmail(e)
    \/ MayLogin /\ \E e \in LoginEmails, p \in Passwords :
                      CallLoginWithPassword(e, p)
    \/ LoginLookup
    \/ LoginInsert
    \/ LoginReselect
    \/ LoginPromote

SpecConcurrentLogins == InitConcurrentLogins /\ [][NextConcurrentLogins]_vars

\* The user a token resolves to: <<id>>, or <<>> when it does not verify.
ResolvesTo(token) ==
    LET session == verifySessionToken(config, now, token)
    IN  IF session = None THEN <<>> ELSE <<session.userId>>

\* C30: after any interleaving of concurrent logins for the same email, the
\* users table holds at most one row with that email, and every token the
\* logins issued for that email resolves to that one user.
C30_OneUserPerEmail ==
    Idle => \A e \in LoginEmails :
        /\ Cardinality(UsersOf(db.users, e)) <= 1
        /\ \A t \in Tokens :
              EqText(config, Some(t.email), e) =>
                 \A i \in UsersOf(db.users, e) : ResolvesTo(t) = <<i>>

----------------------------------------------------------------------------
(* C25: essays.update and papers.update calls that overlap.  A call is     *)
(* suspended at the statements of its context and at the UPDATE of its     *)
(* handler, which the database executes as one step; a call that arrives   *)
(* later may commit first.                                                 *)

\* Update calls in flight at once.
MaxUpdates == 2

UpdatedTables == {"essays", "papers"}

UpdateProcedure(tn) ==
    CASE tn = "essays" -> "essays.update"
      [] tn = "papers" -> "papers.update"

\* The rows stored before any update.
SeededTable(tn) ==
    CASE tn = "essays" -> Seed(MaxRows, SeedEssay, EssayDefaults)
      [] tn = "papers" -> Seed(MaxRows, SeedPaper, PaperDefaults)

\* Patches that overlap in published and publishedAt, and one that touches
\* another column and has a key that is undefined.
ConcurrentPatches(tn) ==
    CASE tn = "essays" ->
            { [published |-> Some(FALSE)],
              [published |-> Some(TRUE), publishedAt |-> Some(2400)],
              [title |-> Some(<<>>), excerpt |-> Undefined] }
      [] tn = "papers" ->
            { [published |-> Some(FALSE), year |-> Undefined] }

\* The calls are on the first row; the other rows stand by.
UpdateInputs(tn) ==
    {Spread(patch, "id", Some(1)) : patch \in ConcurrentPatches(tn)}

InitConcurrentUpdates ==
    LET users == createUser(EmptyTable, 1, 0, 0,
                            NewUser(BaseConfig, BaseConfig.adminEmail))
    IN  /\ now = 0
        /\ config = BaseConfig
        /\ db = [EmptyDb EXCEPT !.users = users,
                                !.essays = SeededTable("essays"),
                                !.papers = SeededTable("papers")]
        /\ autoInc = [FirstIds EXCEPT !.users = 2, !.essays = MaxRows + 1,
                                      !.papers = MaxRows + 1]
        /\ objects = EmptyBucket
        /\ s3Client = None
        /\ presigned = {}
        /\ pending = {}
        /\ issued = {Grant(SessionFor(BaseConfig, 0, users[1]), 0,
                           BaseConfig.sessionMaxAge)}
        /\ last = NoCall

MayOverlap == Cardinality(pending) < MaxUpdates

NextConcurrentUpdates ==
    \/ MayTick /\ Tick(MsPerSecond)
    \/ \E req \in Admins : \E input \in UpdateInputs("essays") :
          EssaysUpdate(req, input)
    \/ \E req \in Admins : \E input \in UpdateInputs("papers") :
          PapersUpdate(req, input)
    \/ MayOverlap /\ \E req \in Admins : \E input \in UpdateInputs("essays") :
          Overlap("essays.update", "admin", req, input)
    \/ MayOverlap /\ \E req \in Admins : \E input \in UpdateInputs("papers") :
          Overlap("papers.update", "admin", req, input)

SpecConcurrentUpdates == InitConcurrentUpdates /\ [][NextConcurrentUpdates]_vars

\* The step is the commit of an update call on table tn.
Commits(tn) == last'.proc = UpdateProcedure(tn) /\ last'.result = "ok"

\* C25 (as stated): concurrent updates of a content row are
\* last-write-wins.  In every interleaving of update calls, each commit
\* takes row id from the value it has at the commit, whichever call wrote
\* it, to that value with the fields its patch specifies replaced by the
\* patch's values, and no other step changes a row; so the final row is the
\* result of applying the patches in commit order, each field holding the
\* value of the latest-committed patch that specifies it or its prior
\* value, and no other row is affected.
C25_PatchOrPriorValue ==
    [][ \A tn \in UpdatedTables :
          IF Commits(tn)
          THEN LET id    == last'.input.id[1]
                   patch == Rest(last'.input)
               IN  /\ DOMAIN db'[tn] = DOMAIN db[tn]
                   /\ \A i \in DOMAIN db[tn] \ {id} : db'[tn][i] = db[tn][i]
                   /\ id \in DOMAIN db[tn] =>
                         \A c \in DOMAIN db[tn][id] :
                            IF c \in Defined(patch)
                            THEN Exactly(c, db'[tn][id][c], patch[c])
                            ELSE db'[tn][id][c] = db[tn][id][c]
          ELSE db'[tn] = db[tn] ]_vars

\* C25 (amended): the same, with two exceptions: updatedAt, which no patch
\* specifies and which the database sets to the time of each commit that
\* changes the row, and a timestamp field that a patch specifies, which
\* holds the patch's value rounded to the nearest whole second.
C25_LastWriteWins ==
    [][ \A tn \in UpdatedTables :
          IF Commits(tn)
          THEN LET id    == last'.input.id[1]
                   patch == Rest(last'.input)
               IN  /\ DOMAIN db'[tn] = DOMAIN db[tn]
                   /\ \A i \in DOMAIN db[tn] \ {id} : db'[tn][i] = db[tn][i]
                   /\ id \in DOMAIN db[tn] =>
                         /\ \A c \in DOMAIN db[tn][id] \ {"updatedAt"} :
                               IF c \in Defined(patch)
                               THEN ToTheSecond(c, db'[tn][id][c], patch[c])
                               ELSE db'[tn][id][c] = db[tn][id][c]
                         /\ db'[tn][id].updatedAt =
                               IF \A c \in DOMAIN db[tn][id] \ {"updatedAt"} :
                                     db'[tn][id][c] = db[tn][id][c]
                               THEN db[tn][id].updatedAt
                               ELSE Some(Epoch(now))
          ELSE db'[tn] = db[tn] ]_vars

\* The calls in flight that arrived before the call that returned last.
Overtaken == {p \in pending : p.at < last.at}

\* Two calls on essay 1 overlap: the one that arrived second has committed
\* published: true and a publishedAt, which the essay now has, rounded to
\* the second and with a new updatedAt, while the one that arrived a second
\* before it, with published: false, has passed the gate and awaits its
\* UPDATE.
C25_Witness ==
    /\ last.proc = "essays.update"
    /\ last.result = "ok"
    /\ last.input.id = Some(1)
    /\ Opt(last.input, "published") = Some(TRUE)
    /\ db.essays[1].published = Some(TRUE)
    /\ db.essays[1].publishedAt = Column("publishedAt", last.input.publishedAt)
    /\ db.essays[1].publishedAt # SeededTable("essays")[1].publishedAt
    /\ db.essays[1].updatedAt # SeededTable("essays")[1].updatedAt
    /\ \E p \in Overtaken :
          /\ p.proc = "essays.update"
          /\ p.pc = "handler"
          /\ p.input.id = Some(1)
          /\ Opt(p.input, "published") = Some(FALSE)

----------------------------------------------------------------------------
(* C28: tokens whose email and role claims differ from the stored user,    *)
(* and roles that change in the store after a token was issued, also       *)
(* while a call is in flight; calls of each access level, one at a time,   *)
(* within one clock second.                                                *)

InitRoles == Seeded(BaseConfig)

NextRoles ==
    \/ MayIssue /\ \E id \in DOMAIN db.users, e \in Emails, r \in Roles :
                      CreateSessionTokenAs(id, e, r)
    \/ \E id \in DOMAIN db.users, r \in Roles : UpdateUserRole(id, r)
    \/ \E req \in Requests : AuthenticateRequest(req)
    \/ \E req \in Requests : AuthMe(req)
    \/ \E req \in Requests : EssaysListAll(req, EmptyInput)

SpecRoles == InitRoles /\ [][NextRoles]_vars

RoleProcedures == {"authenticateRequest", "auth.me", "essays.listAll"}

\* The decision of each access level for the user a call resolved.
Decision(proc, user) ==
    CASE proc = "essays.listAll" ->
            IF user = None THEN "Unauthorized"
            ELSE IF user.role = "admin" THEN "ok" ELSE "Forbidden"
      [] proc = "authenticateRequest" ->
            IF user = None THEN "Unauthorized" ELSE "ok"
      [] OTHER -> "ok"

\* The call p, after the step.
After(p) == {q \in pending' : q.pid = p.pid}

\* The user a request resolves to on the store as it is.
Resolved(req) ==
    LET session == verifySessionToken(config, now, getSessionToken(req))
    IN  createContext(session,
                      IF session = None THEN None
                      ELSE getUserById(config, db.users, session.userId))

\* C28: the outcome of an authenticated or admin-gated call depends on the
\* role stored in the user record when the call reads it, not on the email
\* or role claims of the token.  The user a call holds after its SELECT is
\* the stored row of the token's userId as it is then; the call returns
\* that user and is allowed or denied by that user's role; so two tokens
\* for the same userId with different claims get the same user and the same
\* decision, and a role change in the store takes effect for tokens already
\* issued.
C28_StoredRoleDecides ==
    /\ [][ \A p \in pending :
             /\ \A q \in After(p) :
                   (p.pc = "select" /\ q.pc = "stamp") =>
                       /\ p.session.userId \in DOMAIN db.users
                       /\ q.user = db.users[p.session.userId]
             /\ (p.pc \in {"stamp", "handler"} /\ After(p) = {}) =>
                   /\ last'.user = p.user
                   /\ last'.result = Decision(p.proc, p.user)
             /\ (p.pc = "select" /\ After(p) = {}) =>
                   /\ p.session.userId \notin DOMAIN db.users
                   /\ last'.user = None
                   /\ last'.result = Decision(p.proc, None) ]_vars
    /\ [](\A t1, t2 \in Tokens :
            (Verifies(t1) /\ Verifies(t2) /\ t1.userId = t2.userId) =>
               LET u1 == Resolved(CookieRequest(t1))
                   u2 == Resolved(BearerRequest(t2))
               IN  /\ u1 = u2
                   /\ Gate("admin", u1) = Gate("admin", u2)
                   /\ Gate("protected", u1) = Gate("protected", u2))

\* A user whose stored role is user called an admin-only procedure with a
\* token that claims the role admin and was refused, while a client holds
\* another token for the same user that claims the role user.
C28_Witness ==
    /\ last.proc = "essays.listAll"
    /\ HadSession
    /\ getSessionToken(last.req).role = "admin"
    /\ last.user # None
    /\ last.user.role = "user"
    /\ last.result = "Forbidden"
    /\ \E t \in Tokens : /\ Verifies(t)
                         /\ t.userId = getSessionToken(last.req).userId
                         /\ t.role = "user"

=============================================================================
